---- MODULE Spec2Model ----
(***************************************************************************)
(* Rating and prediction engine of sport-huddle-hub:                       *)
(*   api/models/elo_model.py            EloModel                           *)
(*   api/models/elo_recent_form.py      EloRecentFormModel                 *)
(*   api/models/player_value_system.py  PlayerValueSystem                  *)
(*                                                                         *)
(* Python floats are modelled as fixed-point integers, every operation     *)
(* rounded to nearest (ties to even) as IEEE-754 does:                     *)
(*   a rating           is an integer number of 1/RS rating points,        *)
(*   a rating change    is an integer number of 1/FS rating points,        *)
(*   a probability, a weight or a factor is an integer number of 1/ONE.    *)
(* A rating change has a finer grid than a stored rating, as a double of   *)
(* magnitude ~15 has a finer grid than a double of magnitude ~1500.        *)
(***************************************************************************)
EXTENDS Integers, Sequences, FiniteSets, TLC

VARIABLES
    ratings,           \* EloModel.ratings: Dict[int, float], a map team id -> rating
    reversion_factor,  \* EloModel.reversion_factor, fixed at construction
    games,             \* rows of the store's games table, in primary-key order
    elo_rating,        \* Team.elo_rating of every row of the store's teams table
    player_values,     \* PlayerValueSystem.player_values: cache name -> value
    nops,              \* number of calls made so far (bounds the run)
    last,              \* the last call: its arguments, what it returned or raised
    threads            \* the calls in progress on other threads: position and locals

vars == <<ratings, reversion_factor, games, elo_rating, player_values, nops, last, threads>>

\* no call in progress: every call runs from its first to its last statement
NoThreads == << >>

---------------------------------------------------------------------------
(* Fixed-point representation of float *)

RS == 100               \* units of a stored rating per rating point
FS == 1000              \* units of a rating change per rating point
ONE == 10000            \* units of a probability / factor per 1.0
FINE == FS \div RS      \* rating-change units per stored-rating unit

\* n / d rounded to the nearest integer, ties to even (d > 0)
RoundDiv(n, d) ==
    LET q == n \div d
        r == n % d
    IN  IF 2 * r < d THEN q
        ELSE IF 2 * r > d THEN q + 1
        ELSE IF q % 2 = 0 THEN q ELSE q + 1

Abs(x) == IF x < 0 THEN -x ELSE x
Max(x, y) == IF x >= y THEN x ELSE y
Min(x, y) == IF x <= y THEN x ELSE y

\* 10 ** (2 ** -i) in units of 1/ONE, i = 1..14
Pow10Bits == <<31623, 17783, 13335, 11548, 10746, 10366, 10182,
               10090, 10045, 10023, 10011, 10006, 10003, 10001>>

\* 10 ** (r / m) for 0 <= r < m in units of 1/ONE: the binary digits of r / m
\* select the factors 10 ** (2 ** -i), multiplied from the least significant up
RECURSIVE Pow10Frac(_, _, _)
Pow10Frac(i, r, m) ==
    IF i > Len(Pow10Bits) THEN ONE
    ELSE LET bit  == 2 * r >= m
             rest == Pow10Frac(i + 1, IF bit THEN 2 * r - m ELSE 2 * r, m)
         IN  IF bit THEN RoundDiv(rest * Pow10Bits[i], ONE) ELSE rest

RECURSIVE IntPow10(_)
IntPow10(n) == IF n = 0 THEN 1 ELSE 10 * IntPow10(n - 1)

\* 10 ** (d / m) in units of 1/ONE, d any integer
Pow10(d, m) ==
    LET q == d \div m
        f == Pow10Frac(1, d % m, m)
    IN  IF q >= 0 THEN f * IntPow10(q) ELSE RoundDiv(f, IntPow10(-q))

\* math.log(n) in units of 1/ONE, n = 1..65
LnTable == <<0, 6931, 10986, 13863, 16094, 17918, 19459, 20794, 21972, 23026,
             23979, 24849, 25649, 26391, 27081, 27726, 28332, 28904, 29444,
             29957, 30445, 30910, 31355, 31781, 32189, 32581, 32958, 33322,
             33673, 34012, 34340, 34657, 34965, 35264, 35553, 35835, 36109,
             36376, 36636, 36889, 37136, 37377, 37612, 37842, 38067, 38286,
             38501, 38712, 38918, 39120, 39318, 39512, 39703, 39890, 40073,
             40254, 40431, 40604, 40775, 40943, 41109, 41271, 41431, 41589,
             41744>>
Ln(n) == LnTable[n]

---------------------------------------------------------------------------
(* EloModel: parameters and rating map *)

k_factor == 32 * FS             \* 32.0 rating points, in rating-change units
home_advantage == 65 * RS       \* 65.0 rating points
mean_rating == 1500 * RS        \* 1500.0 rating points
DefaultReversion == ONE \div 4  \* 0.25

Teams == {1, 2, 3}              \* team ids a caller may pass
DBTeams == {1, 2}               \* ids of the rows of the store's teams table

EmptyRatings == [t \in {} |-> 0]

\* a lookup whose miss yields 0 instead of the default
Get_ZeroOnMiss(r, t, default) == IF t \in DOMAIN r THEN r[t] ELSE 0

\* dict.get(t, default)
Get(r, t, default) == IF t \in DOMAIN r THEN r[t] ELSE default
Put(r, t, v) == [x \in (DOMAIN r) \cup {t} |-> IF x = t THEN v ELSE r[x]]

\* expected_score with the exponent floor-divided (// for /)
ExpectedScore_FloorDiv(rating_a, rating_b) ==
    RoundDiv(ONE * ONE,
             ONE + Pow10(((rating_b - rating_a) \div (400 * RS)) * (400 * RS), 400 * RS))

\* EloModel.expected_score: 1 / (1 + 10 ** ((rating_b - rating_a) / 400))
ExpectedScore(rating_a, rating_b) ==
    RoundDiv(ONE * ONE, ONE + Pow10(rating_b - rating_a, 400 * RS))

\* float addition of a rating and a rating change, rounded to the rating grid
StoreSum(rating, change) == RoundDiv(rating * FINE + change, FINE)

\* the dynamic K-factor of update_ratings, in rating-change units
DynamicK(margin) ==
    IF margin > 0
    THEN LET multiplier == RoundDiv(RoundDiv(Ln(Abs(margin) + 1) * 22, 10) * FS, k_factor)
         IN  RoundDiv(k_factor * (ONE + multiplier), ONE)
    ELSE k_factor

HomeChange(r, home_team_id, away_team_id, home_won, margin) ==
    LET home_rating     == Get(r, home_team_id, mean_rating)
        away_rating     == Get(r, away_team_id, mean_rating)
        home_rating_adj == home_rating + home_advantage
        expected_home   == ExpectedScore(home_rating_adj, away_rating)
        actual_home     == IF home_won THEN ONE ELSE 0
    IN  RoundDiv(DynamicK(margin) * (actual_home - expected_home), ONE)

\* update_ratings with the away team given the home team's change (sign slip)
UpdateRatingsMap_SameSign(r, home_team_id, away_team_id, home_won, margin) ==
    LET home_rating == Get(r, home_team_id, mean_rating)
        away_rating == Get(r, away_team_id, mean_rating)
        home_change == HomeChange(r, home_team_id, away_team_id, home_won, margin)
        r1 == Put(r, home_team_id, StoreSum(home_rating, home_change))
    IN  Put(r1, away_team_id, StoreSum(away_rating, home_change))

\* the rating map after update_ratings: the away store follows the home store
UpdateRatingsMap(r, home_team_id, away_team_id, home_won, margin) ==
    LET home_rating == Get(r, home_team_id, mean_rating)
        away_rating == Get(r, away_team_id, mean_rating)
        home_change == HomeChange(r, home_team_id, away_team_id, home_won, margin)
        r1 == Put(r, home_team_id, StoreSum(home_rating, home_change))
    IN  Put(r1, away_team_id, StoreSum(away_rating, -home_change))

\* season_regression pushing away from the mean (sign slip on the factor)
RegressOne_AwayFromMean(current, rf) ==
    RoundDiv(current * (ONE + rf), ONE) - RoundDiv(mean_rating * rf, ONE)

\* one rating after season_regression
RegressOne(current, rf) ==
    RoundDiv(current * (ONE - rf), ONE) + RoundDiv(mean_rating * rf, ONE)

\* a regression that puts every rating at the mean at once
SeasonRegressionMap_SnapToMean(r, rf) == [t \in DOMAIN r |-> mean_rating]

\* season_regression over the whole map
SeasonRegressionMap(r, rf) == [t \in DOMAIN r |-> RegressOne(r[t], rf)]

\* initialize_ratings setting only the ids that have no entry yet
InitializeRatingsMap_KeepExisting(r) ==
    [t \in (DOMAIN r) \cup DBTeams |-> IF t \in DOMAIN r THEN r[t] ELSE mean_rating]

\* the rating map after initialize_ratings: every team row of the store is set
\* to mean_rating; entries of other ids are left as they are
InitializeRatingsMap(r) ==
    [t \in (DOMAIN r) \cup DBTeams |-> IF t \in DBTeams THEN mean_rating ELSE r[t]]

\* predict_game with the away probability computed on its own, from the two
\* ratings without the home advantage
PredictGameResult_AwayWithoutHomeAdvantage(r, home_team_id, away_team_id) ==
    LET home_rating     == Get(r, home_team_id, mean_rating)
        away_rating     == Get(r, away_team_id, mean_rating)
        home_rating_adj == home_rating + home_advantage
        home_win_prob   == ExpectedScore(home_rating_adj, away_rating)
        elo_diff        == home_rating_adj - away_rating
        predicted_spread     == RoundDiv(elo_diff, 25)
        half_total           == (456 * RS) \div 20      \* avg_total / 2
        predicted_home_score == half_total + RoundDiv(predicted_spread, 2)
        predicted_away_score == half_total - RoundDiv(predicted_spread, 2)
    IN  [home_win_probability |-> home_win_prob,
         away_win_probability |-> ExpectedScore(away_rating, home_rating),
         predicted_home_score |-> Max(0, predicted_home_score),
         predicted_away_score |-> Max(0, predicted_away_score),
         predicted_spread     |-> predicted_spread,
         home_elo             |-> home_rating,
         away_elo             |-> away_rating,
         confidence           |-> Abs(home_win_prob - ONE \div 2) * 2]

\* EloModel.predict_game: the returned dict
PredictGameResult(r, home_team_id, away_team_id) ==
    LET home_rating     == Get(r, home_team_id, mean_rating)
        away_rating     == Get(r, away_team_id, mean_rating)
        home_rating_adj == home_rating + home_advantage
        home_win_prob   == ExpectedScore(home_rating_adj, away_rating)
        elo_diff        == home_rating_adj - away_rating
        predicted_spread     == RoundDiv(elo_diff, 25)
        half_total           == (456 * RS) \div 20      \* avg_total / 2
        predicted_home_score == half_total + RoundDiv(predicted_spread, 2)
        predicted_away_score == half_total - RoundDiv(predicted_spread, 2)
    IN  [home_win_probability |-> home_win_prob,
         away_win_probability |-> ONE - home_win_prob,
         predicted_home_score |-> Max(0, predicted_home_score),
         predicted_away_score |-> Max(0, predicted_away_score),
         predicted_spread     |-> predicted_spread,
         home_elo             |-> home_rating,
         away_elo             |-> away_rating,
         confidence           |-> Abs(home_win_prob - ONE \div 2) * 2]

---------------------------------------------------------------------------
(* Actions of the engine *)

MaxOps == 2
Margins == {0, 7}
ReversionFactors == {0, DefaultReversion}

NoCall == [op |-> "none"]

\* A behaviour is a sequence of at most MaxOps calls that ends with its first
\* query: a query changes nothing but `last`, so the calls that could follow it
\* are the calls that can be made in its place.  get_team_injury_impact also
\* fills the value cache, with the entries that get_player_value calls made in
\* its place would leave.
QueryOps == {"expected_score", "predict_game", "predict_game_recent_form",
             "get_team_recent_form", "evaluate_predictions", "get_team_injury_impact",
             "calculate_injury_impact", "predict_week", "get_hot_teams", "get_cold_teams"}
CanCall == nops < MaxOps /\ last.op \notin QueryOps

Init ==
    /\ ratings = EmptyRatings
    /\ reversion_factor \in ReversionFactors
    /\ games = <<>>
    /\ elo_rating = [t \in DBTeams |-> mean_rating]
    /\ player_values = EmptyRatings
    /\ nops = 0
    /\ last = NoCall
    /\ threads = NoThreads

UpdateRatings(home_team_id, away_team_id, home_won, margin) ==
    /\ CanCall
    /\ nops' = nops + 1
    /\ ratings' = UpdateRatingsMap(ratings, home_team_id, away_team_id, home_won, margin)
    /\ last' = [op |-> "update_ratings",
                home |-> home_team_id, away |-> away_team_id,
                home_won |-> home_won, margin |-> margin,
                old |-> ratings,
                old_home |-> Get(ratings, home_team_id, mean_rating),
                old_away |-> Get(ratings, away_team_id, mean_rating),
                ret |-> <<ratings'[home_team_id], ratings'[away_team_id]>>,
                raised |-> FALSE]
    /\ UNCHANGED <<reversion_factor, games, elo_rating, player_values, threads>>

SeasonRegression ==
    /\ CanCall
    /\ nops' = nops + 1
    /\ ratings' = SeasonRegressionMap(ratings, reversion_factor)
    /\ last' = [op |-> "season_regression", old |-> ratings, raised |-> FALSE]
    /\ UNCHANGED <<reversion_factor, games, elo_rating, player_values, threads>>

InitializeRatings ==
    /\ CanCall
    /\ nops' = nops + 1
    /\ ratings' = InitializeRatingsMap(ratings)
    /\ last' = [op |-> "initialize_ratings", old |-> ratings, raised |-> FALSE]
    /\ UNCHANGED <<reversion_factor, games, elo_rating, player_values, threads>>

\* predict_game entering the default rating of an absent team into the map
\* (setdefault for get)
PredictGame_StoresDefaults(home_team_id, away_team_id) ==
    /\ CanCall
    /\ nops' = nops + 1
    /\ ratings' = [t \in (DOMAIN ratings) \cup {home_team_id, away_team_id} |->
                      IF t \in DOMAIN ratings THEN ratings[t] ELSE mean_rating]
    /\ last' = [op |-> "predict_game", home |-> home_team_id, away |-> away_team_id,
                ret |-> PredictGameResult(ratings, home_team_id, away_team_id),
                raised |-> FALSE]
    /\ UNCHANGED <<reversion_factor, games, elo_rating, player_values, threads>>

PredictGame(home_team_id, away_team_id) ==
    /\ CanCall
    /\ nops' = nops + 1
    /\ last' = [op |-> "predict_game", home |-> home_team_id, away |-> away_team_id,
                ret |-> PredictGameResult(ratings, home_team_id, away_team_id),
                raised |-> FALSE]
    /\ UNCHANGED <<ratings, reversion_factor, games, elo_rating, player_values, threads>>

Next ==
    \/ \E h \in Teams, a \in Teams, w \in BOOLEAN, m \in Margins : UpdateRatings(h, a, w, m)
    \/ SeasonRegression
    \/ InitializeRatings
    \/ \E h \in Teams, a \in Teams : PredictGame(h, a)

Spec == Init /\ [][Next]_vars

---------------------------------------------------------------------------
(* Claims about update_ratings and season_regression (specification Spec) *)

StoredChangeHome == ratings[last.home] - last.old_home
StoredChangeAway == ratings[last.away] - last.old_away

\* C1 as stated: after every update_ratings call, whatever its arguments, the
\* change of the home team's stored rating is the exact negation of the change
\* of the away team's stored rating.
C1_ZeroSumAnyArguments ==
    last.op = "update_ratings" => StoredChangeHome = -StoredChangeAway

\* C1 amended: after an update_ratings call with home_team_id # away_team_id the
\* two stored changes are negations of each other to within the rounding of the
\* two stored sums (one unit of the rating grid).
C1_ZeroSumDistinctTeams ==
    (last.op = "update_ratings" /\ last.home # last.away)
        => Abs(StoredChangeHome + StoredChangeAway) <= 1

C1_Witness ==
    /\ last.op = "update_ratings"
    /\ last.home # last.away
    /\ nops = MaxOps
    /\ last.old_home # mean_rating
    /\ StoredChangeHome # 0

DistToMean(x) == Abs(x - mean_rating)

\* C3 as stated: season_regression never moves a tracked rating away from
\* mean_rating, and leaves its distance to mean_rating unchanged only when
\* reversion_factor = 0.
C3_ContractionStrictUnlessZeroFactor ==
    last.op = "season_regression" =>
        \A t \in DOMAIN last.old :
            /\ DistToMean(ratings[t]) <= DistToMean(last.old[t])
            /\ DistToMean(ratings[t]) = DistToMean(last.old[t]) => reversion_factor = 0

\* C3 amended: season_regression never moves a tracked rating away from
\* mean_rating, and leaves its distance unchanged only when reversion_factor = 0
\* or the rating is already at mean_rating to within rounding (2 grid units).
C3_ContractionStrictAwayFromMean ==
    last.op = "season_regression" =>
        \A t \in DOMAIN last.old :
            /\ DistToMean(ratings[t]) <= DistToMean(last.old[t])
            /\ DistToMean(ratings[t]) = DistToMean(last.old[t])
                  => (reversion_factor = 0 \/ DistToMean(last.old[t]) <= 2)

C3_Witness ==
    /\ last.op = "season_regression"
    /\ reversion_factor # 0
    /\ \E t \in DOMAIN last.old : DistToMean(ratings[t]) < DistToMean(last.old[t])

---------------------------------------------------------------------------
(* expected_score as a pure function (specification SpecExpected) *)

MaxGap == 9
GapStep == 10000     \* spacing of the sampled ratings, in rating units
RatingInputs == {mean_rating + g * GapStep : g \in -MaxGap..MaxGap}

ExpectedScoreCall(rating_a, rating_b) ==
    /\ CanCall
    /\ nops' = nops + 1
    /\ last' = [op |-> "expected_score", rating_a |-> rating_a, rating_b |-> rating_b,
                ret |-> ExpectedScore(rating_a, rating_b), raised |-> FALSE]
    /\ UNCHANGED <<ratings, reversion_factor, games, elo_rating, player_values, threads>>

NextExpected == \E a \in RatingInputs, b \in RatingInputs : ExpectedScoreCall(a, b)

SpecExpected == Init /\ [][NextExpected]_vars

\* C2 as stated: for all ratings a and b, expected_score(a, b) lies strictly
\* between 0 and 1 and expected_score(a, b) + expected_score(b, a) is exactly 1.
C2_SymmetryExact ==
    last.op = "expected_score" =>
        /\ 0 < last.ret /\ last.ret < ONE
        /\ last.ret + ExpectedScore(last.rating_b, last.rating_a) = ONE

\* the largest rating gap for which C2 is stated as amended: 1200 rating points
SymmetryGap == 1200 * RS

\* C2 amended: for ratings a and b at most 1200 rating points apart,
\* expected_score(a, b) lies strictly between 0 and 1, and expected_score(a, b)
\* + expected_score(b, a) is 1 to within the rounding of the two results (one
\* unit of the probability grid).
C2_SymmetryWithinRounding ==
    (last.op = "expected_score" /\ Abs(last.rating_a - last.rating_b) <= SymmetryGap) =>
        /\ 0 < last.ret /\ last.ret < ONE
        /\ Abs(last.ret + ExpectedScore(last.rating_b, last.rating_a) - ONE) <= 1

C2_Witness ==
    /\ last.op = "expected_score"
    /\ last.rating_a > last.rating_b
    /\ Abs(last.rating_a - last.rating_b) <= SymmetryGap
    /\ last.ret > ONE \div 2
    /\ last.ret + ExpectedScore(last.rating_b, last.rating_a) = ONE

---------------------------------------------------------------------------
(* The store's games table, training and evaluation (specification SpecTrain) *)

None == -1          \* a NULL home_score / away_score (scores are >= 0)

\* the rows a games table may hold, from the given column domains
GameRows(seasons, weeks, dates, pairs, scores) ==
    {[season |-> s, week |-> w, game_date |-> d,
      home_team_id |-> p[1], away_team_id |-> p[2],
      home_score |-> sc[1], away_score |-> sc[2]] :
        s \in seasons, w \in weeks, d \in dates, p \in pairs, sc \in scores}

\* the tables of at most n rows over a set of rows
RECURSIVE TablesUpTo(_, _)
TablesUpTo(rows, n) ==
    IF n = 0 THEN {<<>>}
    ELSE LET shorter == TablesUpTo(rows, n - 1)
         IN  shorter \cup {Append(t, g) : t \in {x \in shorter : Len(x) = n - 1}, g \in rows}

\* ORDER BY week, game_date: rows with equal keys stay in primary-key order
OrderedBefore(g1, g2) ==
    \/ g1.week < g2.week
    \/ g1.week = g2.week /\ g1.game_date < g2.game_date

RECURSIVE InsertGame(_, _)
InsertGame(sorted, g) ==
    IF sorted = <<>> THEN <<g>>
    ELSE IF OrderedBefore(g, Head(sorted)) THEN <<g>> \o sorted
    ELSE <<Head(sorted)>> \o InsertGame(Tail(sorted), g)

RECURSIVE OrderByWeekDate(_)
OrderByWeekDate(rows) ==
    IF rows = <<>> THEN <<>>
    ELSE InsertGame(OrderByWeekDate(SubSeq(rows, 1, Len(rows) - 1)), rows[Len(rows)])

\* the query of train_on_historical_data for one season
\* the rows of the table with their primary key Game.id (the row's position)
WithIds(tbl) ==
    [i \in 1..Len(tbl) |->
        [id |-> i, season |-> tbl[i].season, week |-> tbl[i].week,
         game_date |-> tbl[i].game_date,
         home_team_id |-> tbl[i].home_team_id, away_team_id |-> tbl[i].away_team_id,
         home_score |-> tbl[i].home_score, away_score |-> tbl[i].away_score]]

\* the query of train_on_historical_data for one season
SeasonGamesOrdered(tbl, season) ==
    OrderByWeekDate(SelectSeq(tbl, LAMBDA g : g.season = season /\ g.home_score # None))

\* the query of evaluate_predictions for one season (no ORDER BY)
SeasonGames(tbl, season) ==
    SelectSeq(tbl, LAMBDA g : g.season = season /\ g.home_score # None)

RECURSIVE ReplayGames_TieIsHomeWin(_, _, _)
\* the loop with a tie scored for the home team (>= for >)
ReplayGames_TieIsHomeWin(r, gs, i) ==
    IF i > Len(gs) THEN [ratings |-> r, raised |-> FALSE, calls |-> <<>>]
    ELSE IF gs[i].away_score = None THEN [ratings |-> r, raised |-> TRUE, calls |-> <<>>]
    ELSE LET home_won == gs[i].home_score >= gs[i].away_score
             margin   == Abs(gs[i].home_score - gs[i].away_score)
             updated  == UpdateRatingsMap(r, gs[i].home_team_id, gs[i].away_team_id,
                                          home_won, margin)
             rest     == ReplayGames_TieIsHomeWin(updated, gs, i + 1)
         IN  [rest EXCEPT !.calls = <<[call |-> "update_ratings", season |-> gs[i].season,
                                       game |-> gs[i],
                                       home_won |-> home_won, margin |-> margin,
                                       old_home |-> Get(r, gs[i].home_team_id, mean_rating),
                                       old_away |-> Get(r, gs[i].away_team_id, mean_rating),
                                       ret |-> <<updated[gs[i].home_team_id],
                                                 updated[gs[i].away_team_id]>>]>> \o @]

\* the loop over one season's games: home_score > away_score raises TypeError
\* when away_score is None, with the updates made so far kept in the map
RECURSIVE ReplayGames(_, _, _)
\* `calls` lists the update_ratings calls made, in order, with their arguments,
\* the ratings they read and the pair they return.
ReplayGames(r, gs, i) ==
    IF i > Len(gs) THEN [ratings |-> r, raised |-> FALSE, calls |-> <<>>]
    ELSE IF gs[i].away_score = None THEN [ratings |-> r, raised |-> TRUE, calls |-> <<>>]
    ELSE LET home_won == gs[i].home_score > gs[i].away_score
             margin   == Abs(gs[i].home_score - gs[i].away_score)
             updated  == UpdateRatingsMap(r, gs[i].home_team_id, gs[i].away_team_id,
                                          home_won, margin)
             rest     == ReplayGames(updated, gs, i + 1)
         IN  [rest EXCEPT !.calls = <<[call |-> "update_ratings", season |-> gs[i].season,
                                       game |-> gs[i],
                                       home_won |-> home_won, margin |-> margin,
                                       old_home |-> Get(r, gs[i].home_team_id, mean_rating),
                                       old_away |-> Get(r, gs[i].away_team_id, mean_rating),
                                       ret |-> <<updated[gs[i].home_team_id],
                                                 updated[gs[i].away_team_id]>>]>> \o @]

\* the loop over range(start_season, end_season + 1), from `season` on
RECURSIVE TrainSeasons(_, _, _, _, _, _)
\* `calls` lists the season_regression and update_ratings calls made, in order.
TrainSeasons(r, tbl, rf, season, start_season, end_season) ==
    IF season > end_season THEN [ratings |-> r, raised |-> FALSE, calls |-> <<>>]
    ELSE LET regressed == IF season > start_season THEN SeasonRegressionMap(r, rf) ELSE r
             regress_calls == IF season > start_season
                              THEN <<[call |-> "season_regression", season |-> season]>>
                              ELSE <<>>
             replayed  == ReplayGames(regressed, SeasonGamesOrdered(tbl, season), 1)
         IN  IF replayed.raised
             THEN [replayed EXCEPT !.calls = regress_calls \o @]
             ELSE LET rest == TrainSeasons(replayed.ratings, tbl, rf, season + 1,
                                           start_season, end_season)
                  IN  [rest EXCEPT !.calls = regress_calls \o replayed.calls \o @]

\* train_on_historical_data up to the save: initialize_ratings, then the seasons
TrainResult(r, tbl, rf, start_season, end_season) ==
    TrainSeasons(InitializeRatingsMap(r), tbl, rf, start_season, start_season, end_season)

\* training without the save at its end
SaveRatings_NotSaved(r, stored) == stored

\* the save at the end of train_on_historical_data: every tracked id with a
\* team row gets its rating written to Team.elo_rating
SaveRatings(r, stored) ==
    [t \in DBTeams |-> IF t \in DOMAIN r THEN r[t] ELSE stored[t]]

\* the loop of evaluate_predictions over games gs from index i, with the sums so far
RECURSIVE EvaluateGames(_, _, _, _, _, _)
EvaluateGames(r, gs, i, correct, total, brier_score_sum) ==
    IF i > Len(gs)
    THEN [raised |-> FALSE, games |-> total, correct |-> correct,
          accuracy |-> IF total > 0 THEN RoundDiv(correct * ONE, total) ELSE 0,
          brier_score |-> IF total > 0 THEN RoundDiv(brier_score_sum, total) ELSE 0]
    ELSE IF gs[i].away_score = None
    THEN [raised |-> TRUE, games |-> total, correct |-> correct,
          accuracy |-> 0, brier_score |-> 0]
    ELSE LET pred == PredictGameResult(r, gs[i].home_team_id, gs[i].away_team_id)
             actual_home_won    == gs[i].home_score > gs[i].away_score
             predicted_home_won == 2 * pred.home_win_probability > ONE
             actual == IF actual_home_won THEN ONE ELSE 0
             brier  == RoundDiv((pred.home_win_probability - actual)
                                * (pred.home_win_probability - actual), ONE)
         IN  EvaluateGames(r, gs, i + 1,
                           IF actual_home_won = predicted_home_won THEN correct + 1 ELSE correct,
                           total + 1, brier_score_sum + brier)

EvaluateResult(r, tbl, season) == EvaluateGames(r, SeasonGames(tbl, season), 1, 0, 0, 0)

MaxGames == 2
Seasons == {1, 2}
TrainScores == {<<None, None>>, <<None, 7>>, <<7, None>>, <<21, 7>>, <<7, 21>>}
TrainRows == GameRows(Seasons, {1}, {1}, {<<1, 2>>}, TrainScores)

InitTrain ==
    /\ ratings = EmptyRatings
    /\ reversion_factor = DefaultReversion
    /\ games \in TablesUpTo(TrainRows, MaxGames)
    /\ elo_rating = [t \in DBTeams |-> mean_rating]
    /\ player_values = EmptyRatings
    /\ nops = 0
    /\ last = NoCall
    /\ threads = NoThreads

\* the ids of the games whose results the persisted ratings hold, one entry
\* per application, as far as the calls made so far have put them there
PersistedGames == IF "persisted_games" \in DOMAIN last THEN last.persisted_games ELSE <<>>

\* the ids of the games of the update_ratings calls of a training pass
RECURSIVE GamesOfCalls(_, _)
GamesOfCalls(calls, i) ==
    IF i > Len(calls) THEN <<>>
    ELSE IF calls[i].call = "update_ratings"
         THEN <<calls[i].game.id>> \o GamesOfCalls(calls, i + 1)
         ELSE GamesOfCalls(calls, i + 1)

TrainOnHistoricalData(start_season, end_season) ==
    /\ CanCall
    /\ nops' = nops + 1
    /\ LET res == TrainResult(ratings, WithIds(games), reversion_factor,
                              start_season, end_season)
       IN  /\ ratings' = res.ratings
           /\ elo_rating' = IF res.raised THEN elo_rating
                            ELSE SaveRatings(res.ratings, elo_rating)
           /\ last' = [op |-> "train_on_historical_data",
                       start_season |-> start_season, end_season |-> end_season,
                       old |-> ratings, old_elo_rating |-> elo_rating,
                       calls |-> res.calls,
                       persisted_games |-> IF res.raised THEN PersistedGames
                                           ELSE GamesOfCalls(res.calls, 1),
                       raised |-> res.raised]
    /\ UNCHANGED <<reversion_factor, games, player_values, threads>>

EvaluatePredictions(season) ==
    /\ CanCall
    /\ nops' = nops + 1
    /\ LET res == EvaluateResult(ratings, games, season)
       IN  last' = [op |-> "evaluate_predictions", season |-> season,
                    ret |-> res, raised |-> res.raised]
    /\ UNCHANGED <<ratings, reversion_factor, games, elo_rating, player_values, threads>>

NextTrain ==
    \/ \E s \in Seasons, e \in Seasons : s <= e /\ TrainOnHistoricalData(s, e)
    \/ \E s \in Seasons : EvaluatePredictions(s)
    \/ \E w \in BOOLEAN : UpdateRatings(3, 1, w, 7)

SpecTrain == InitTrain /\ [][NextTrain]_vars

\* tables of one season whose games carry any week and any date
Weeks == {1, 2}
OrderRows == GameRows({1}, Weeks, {1, 2}, {<<1, 2>>}, {<<21, 7>>, <<7, 21>>})

InitOrder ==
    /\ ratings = EmptyRatings
    /\ reversion_factor = DefaultReversion
    /\ games \in TablesUpTo(OrderRows, MaxGames)
    /\ elo_rating = [t \in DBTeams |-> mean_rating]
    /\ player_values = EmptyRatings
    /\ nops = 0
    /\ last = NoCall
    /\ threads = NoThreads

NextOrder ==
    \/ TrainOnHistoricalData(1, 1)
    \/ EvaluatePredictions(1)

SpecOrder == InitOrder /\ [][NextOrder]_vars

---------------------------------------------------------------------------
(* Claims about training and evaluation (specification SpecTrain) *)

\* what the same call yields on a freshly constructed engine
FreshTrainResult ==
    TrainResult(EmptyRatings, games, reversion_factor, last.start_season, last.end_season)

\* C4 as stated: train_on_historical_data yields the rating map a fresh engine
\* yields on the same games and teams, whatever ratings the engine held before.
C4_TrainIndependentOfPriorMap ==
    last.op = "train_on_historical_data" =>
        /\ ratings = FreshTrainResult.ratings
        /\ last.raised = FreshTrainResult.raised

\* C4 amended: train_on_historical_data yields, for every team of the store's
\* teams table, the rating a fresh engine yields on the same games and teams,
\* and the same rating map when the engine held entries only for such teams;
\* an entry for any other id is not reset by the call.
C4_TrainIndependentOfPriorTeamRatings ==
    last.op = "train_on_historical_data" =>
        /\ \A t \in DBTeams : ratings[t] = FreshTrainResult.ratings[t]
        /\ last.raised = FreshTrainResult.raised
        /\ (DOMAIN last.old \subseteq DBTeams) => ratings = FreshTrainResult.ratings

C4_Witness ==
    /\ last.op = "train_on_historical_data"
    /\ ~last.raised
    /\ \E t \in DBTeams :
          /\ t \in DOMAIN last.old
          /\ last.old[t] # mean_rating
          /\ ratings[t] # mean_rating
          /\ ratings[t] # last.old[t]

IsCompleted(g) == g.home_score # None /\ g.away_score # None
CompletedGames == SelectSeq(games, IsCompleted)

\* C7: a game with one or both scores absent is skipped by
\* train_on_historical_data and by evaluate_predictions: neither raises, the
\* ratings are those of training on the completed games alone, and the
\* evaluation is that of the completed games alone.
C7_IncompleteGamesSkipped ==
    /\ last.op = "train_on_historical_data" =>
          /\ ~last.raised
          /\ ratings = TrainResult(last.old, CompletedGames, reversion_factor,
                                   last.start_season, last.end_season).ratings
    /\ last.op = "evaluate_predictions" =>
          /\ ~last.raised
          /\ last.ret = EvaluateResult(ratings, CompletedGames, last.season)

CompletedInSeason(season) == Len(SelectSeq(CompletedGames, LAMBDA g : g.season = season))

\* C8: evaluate_predictions of a season with no completed game returns games = 0,
\* accuracy = 0 and brier_score = 0 without raising; of a season with completed
\* games it returns accuracy = correct / total with 0 <= correct <= total.
C8_EvaluationMetricsDefined ==
    last.op = "evaluate_predictions" =>
        /\ ~last.raised
        /\ CompletedInSeason(last.season) = 0 =>
              (last.ret.games = 0 /\ last.ret.accuracy = 0 /\ last.ret.brier_score = 0)
        /\ CompletedInSeason(last.season) > 0 =>
              /\ last.ret.games = CompletedInSeason(last.season)
              /\ 0 <= last.ret.correct /\ last.ret.correct <= last.ret.games
              /\ last.ret.accuracy = RoundDiv(last.ret.correct * ONE, last.ret.games)

---------------------------------------------------------------------------
(* EloRecentFormModel (specification SpecForm) *)

recent_games_weight == (3 * ONE) \div 10    \* 0.3
games_to_consider == 3
momentum_factor == 50 * RS                  \* 50 rating points
OverlayDefaultRating == 1500 * RS           \* the literal 1500 of predict_game

NoDate == None                              \* before_date = None

\* ORDER BY game_date DESC: rows with equal dates stay in primary-key order
RECURSIVE InsertByDateDesc(_, _)
InsertByDateDesc(sorted, g) ==
    IF sorted = <<>> THEN <<g>>
    ELSE IF g.game_date > Head(sorted).game_date THEN <<g>> \o sorted
    ELSE <<Head(sorted)>> \o InsertByDateDesc(Tail(sorted), g)

RECURSIVE OrderByDateDesc(_)
OrderByDateDesc(rows) ==
    IF rows = <<>> THEN <<>>
    ELSE InsertByDateDesc(OrderByDateDesc(SubSeq(rows, 1, Len(rows) - 1)), rows[Len(rows)])

\* the query with the cutoff date itself let through (<= for <)
RecentGames_UpToCutoff(tbl, team_id, before_date) ==
    LET matching == SelectSeq(tbl, LAMBDA g :
                        /\ (g.home_team_id = team_id \/ g.away_team_id = team_id)
                        /\ g.home_score # None
                        /\ g.away_score # None
                        /\ (before_date # NoDate => g.game_date <= before_date))
        ordered  == OrderByDateDesc(matching)
    IN  SubSeq(ordered, 1, Min(Len(ordered), games_to_consider))

\* the query of get_team_recent_form
RecentGames(tbl, team_id, before_date) ==
    LET matching == SelectSeq(tbl, LAMBDA g :
                        /\ (g.home_team_id = team_id \/ g.away_team_id = team_id)
                        /\ g.home_score # None
                        /\ g.away_score # None
                        /\ (before_date # NoDate => g.game_date < before_date))
        ordered  == OrderByDateDesc(matching)
    IN  SubSeq(ordered, 1, Min(Len(ordered), games_to_consider))

\* weight of the i-th most recent game, i = 0, 1, ...
FormWeight(i) == RoundDiv((games_to_consider - i) * ONE, games_to_consider)

TeamWon(g, team_id) ==
    IF g.home_team_id = team_id THEN g.home_score > g.away_score
    ELSE g.away_score > g.home_score

TeamPointDiff(g, team_id) ==
    IF g.home_team_id = team_id THEN g.home_score - g.away_score
    ELSE g.away_score - g.home_score

\* the sums of the loop over recent_games, from position n down to 1
RECURSIVE WeightedWins(_, _, _)
WeightedWins(gs, team_id, n) ==
    IF n = 0 THEN 0
    ELSE WeightedWins(gs, team_id, n - 1)
         + (IF TeamWon(gs[n], team_id) THEN FormWeight(n - 1) ELSE 0)

RECURSIVE WeightedPointDiff(_, _, _)
WeightedPointDiff(gs, team_id, n) ==
    IF n = 0 THEN 0
    ELSE WeightedPointDiff(gs, team_id, n - 1) + TeamPointDiff(gs[n], team_id) * FormWeight(n - 1)

RECURSIVE WeightedGames(_)
WeightedGames(n) == IF n = 0 THEN 0 ELSE WeightedGames(n - 1) + FormWeight(n - 1)

FormPoint(g, team_id) == IF TeamWon(g, team_id) THEN 1 ELSE -1

\* the momentum read from the oldest game towards the most recent one
Momentum_OldestFirst(gs, team_id) ==
    IF Len(gs) >= 2
    THEN IF FormPoint(gs[Len(gs)], team_id) > FormPoint(gs[1], team_id) THEN "hot"
         ELSE IF FormPoint(gs[Len(gs)], team_id) < FormPoint(gs[1], team_id) THEN "cold"
         ELSE "neutral"
    ELSE "neutral"

\* momentum: form_points[0] against form_points[-1]
Momentum(gs, team_id) ==
    IF Len(gs) >= 2
    THEN IF FormPoint(gs[1], team_id) > FormPoint(gs[Len(gs)], team_id) THEN "hot"
         ELSE IF FormPoint(gs[1], team_id) < FormPoint(gs[Len(gs)], team_id) THEN "cold"
         ELSE "neutral"
    ELSE "neutral"

MomentumBoost(momentum) ==
    IF momentum = "hot" THEN 20 * RS ELSE IF momentum = "cold" THEN -(20 * RS) ELSE 0

\* the form rating left as computed, without the cap
CapFormRating_NoCap(form_rating) == form_rating

\* max(-momentum_factor, min(momentum_factor, form_rating))
CapFormRating(form_rating) == Max(-momentum_factor, Min(momentum_factor, form_rating))

\* get_team_recent_form: the returned dict
RecentForm(tbl, team_id, before_date) ==
    LET recent_games == RecentGames(tbl, team_id, before_date)
        n == Len(recent_games)
    IN  IF n = 0
        THEN [form_rating |-> 0, win_rate |-> ONE \div 2, avg_point_diff |-> 0,
              games_count |-> 0, momentum |-> "neutral"]
        ELSE LET wins == WeightedWins(recent_games, team_id, n)
                 total_point_diff == WeightedPointDiff(recent_games, team_id, n)
                 weighted_games == WeightedGames(n)
                 win_rate == IF weighted_games > 0 THEN RoundDiv(wins * ONE, weighted_games)
                             ELSE ONE \div 2
                 momentum == Momentum(recent_games, team_id)
                 form_rating == RoundDiv((win_rate - ONE \div 2) * 100 * RS, ONE)
                                + RoundDiv(total_point_diff * 2 * RS, n * ONE)
                                + MomentumBoost(momentum)
             IN  [form_rating |-> CapFormRating(form_rating),
                  win_rate |-> win_rate,
                  avg_point_diff |-> RoundDiv(total_point_diff * RS, n * ONE),
                  games_count |-> n,
                  momentum |-> momentum]

\* the overlay's dict laid over the base prediction's dict
\* ({**base_prediction, ...})
OverlayReturn_OverBase(base_prediction, home_form, away_form, home_win_prob, rating_diff, home_adjustment, away_adjustment) ==
    [home_win_probability |-> home_win_prob,
     away_win_probability |-> ONE - home_win_prob,
     predicted_spread |-> RoundDiv(rating_diff, 25),
     model_type |-> "elo_recent_form",
     home_form |-> home_form,
     away_form |-> away_form,
     base_home_prob |-> base_prediction.home_win_probability,
     base_away_prob |-> base_prediction.away_win_probability,
     form_adjustment |-> [home |-> home_adjustment, away |-> away_adjustment]]
    @@ base_prediction

\* the return statement of EloRecentFormModel.predict_game
OverlayReturn(base_prediction, home_form, away_form, home_win_prob, rating_diff, home_adjustment, away_adjustment) ==
    [home_win_probability |-> home_win_prob,
     away_win_probability |-> ONE - home_win_prob,
     predicted_spread |-> RoundDiv(rating_diff, 25),
     model_type |-> "elo_recent_form",
     home_form |-> home_form,
     away_form |-> away_form,
     base_home_prob |-> base_prediction.home_win_probability,
     base_away_prob |-> base_prediction.away_win_probability,
     form_adjustment |-> [home |-> home_adjustment, away |-> away_adjustment]]

\* the overlay with the home advantage left out of the adjusted rating gap
PredictGameRecentFormResult_NoHomeAdvantage(r, tbl, home_team_id, away_team_id, game_date) ==
    LET base_prediction == PredictGameResult(r, home_team_id, away_team_id)
        home_form == RecentForm(tbl, home_team_id, game_date)
        away_form == RecentForm(tbl, away_team_id, game_date)
        home_rating == Get(r, home_team_id, OverlayDefaultRating)
        away_rating == Get(r, away_team_id, OverlayDefaultRating)
        home_adjustment == RoundDiv(home_form.form_rating * recent_games_weight, ONE)
        away_adjustment == RoundDiv(away_form.form_rating * recent_games_weight, ONE)
        home_adjusted == home_rating + home_adjustment
        away_adjusted == away_rating + away_adjustment
        rating_diff == home_adjusted - away_adjusted
        home_win_prob == RoundDiv(ONE * ONE, ONE + Pow10(-rating_diff, 400 * RS))
    IN  OverlayReturn(base_prediction, home_form, away_form, home_win_prob, rating_diff,
                      home_adjustment, away_adjustment)

\* EloRecentFormModel.predict_game: the returned dict
PredictGameRecentFormResult(r, tbl, home_team_id, away_team_id, game_date) ==
    LET base_prediction == PredictGameResult(r, home_team_id, away_team_id)
        home_form == RecentForm(tbl, home_team_id, game_date)
        away_form == RecentForm(tbl, away_team_id, game_date)
        home_rating == Get(r, home_team_id, OverlayDefaultRating)
        away_rating == Get(r, away_team_id, OverlayDefaultRating)
        home_adjustment == RoundDiv(home_form.form_rating * recent_games_weight, ONE)
        away_adjustment == RoundDiv(away_form.form_rating * recent_games_weight, ONE)
        home_adjusted == home_rating + home_adjustment
        away_adjusted == away_rating + away_adjustment
        rating_diff == home_adjusted - away_adjusted + home_advantage
        home_win_prob == RoundDiv(ONE * ONE, ONE + Pow10(-rating_diff, 400 * RS))
    IN  OverlayReturn(base_prediction, home_form, away_form, home_win_prob, rating_diff,
                      home_adjustment, away_adjustment)

Dates == {1, 2}
FormScores == {<<35, 0>>, <<0, 21>>, <<7, 7>>, <<7, None>>}
FormRows == GameRows({1}, {1}, Dates, {<<1, 2>>, <<2, 1>>}, FormScores)

InitForm ==
    /\ ratings = EmptyRatings
    /\ reversion_factor = DefaultReversion
    /\ games \in TablesUpTo(FormRows, MaxGames)
    /\ elo_rating = [t \in DBTeams |-> mean_rating]
    /\ player_values = EmptyRatings
    /\ nops = 0
    /\ last = NoCall
    /\ threads = NoThreads

GetTeamRecentForm(team_id, before_date) ==
    /\ CanCall
    /\ nops' = nops + 1
    /\ last' = [op |-> "get_team_recent_form", team_id |-> team_id,
                before_date |-> before_date,
                recent_games |-> RecentGames(WithIds(games), team_id, before_date),
                ret |-> RecentForm(games, team_id, before_date), raised |-> FALSE]
    /\ UNCHANGED <<ratings, reversion_factor, games, elo_rating, player_values, threads>>

PredictGameRecentForm(home_team_id, away_team_id, game_date) ==
    /\ CanCall
    /\ nops' = nops + 1
    /\ last' = [op |-> "predict_game_recent_form",
                home |-> home_team_id, away |-> away_team_id, game_date |-> game_date,
                ret |-> PredictGameRecentFormResult(ratings, games, home_team_id,
                                                    away_team_id, game_date),
                raised |-> FALSE]
    /\ UNCHANGED <<ratings, reversion_factor, games, elo_rating, player_values, threads>>

\* EloModel.predict_week: one prediction per game of the week, scored or not,
\* tagged with the game's id (its position in the table)
RECURSIVE PredictWeekResult(_, _, _, _, _)
PredictWeekResult(r, tbl, season, week, i) ==
    IF i > Len(tbl) THEN <<>>
    ELSE IF tbl[i].season = season /\ tbl[i].week = week
         THEN <<[pred |-> PredictGameResult(r, tbl[i].home_team_id, tbl[i].away_team_id),
                 game_id |-> i]>>
              \o PredictWeekResult(r, tbl, season, week, i + 1)
         ELSE PredictWeekResult(r, tbl, season, week, i + 1)

PredictWeek(season, week) ==
    /\ CanCall
    /\ nops' = nops + 1
    /\ last' = [op |-> "predict_week", season |-> season, week |-> week,
                ret |-> PredictWeekResult(ratings, games, season, week, 1),
                raised |-> FALSE]
    /\ UNCHANGED <<ratings, reversion_factor, games, elo_rating, player_values, threads>>

NextForm ==
    \/ \E t \in {1, 3}, d \in {NoDate, 2} : GetTeamRecentForm(t, d)
    \/ \E h \in {1, 3}, a \in {2, 3}, d \in {NoDate, 2} : PredictGameRecentForm(h, a, d)
    \/ \E h \in {1, 3}, a \in {2, 3} : PredictGame(h, a)
    \/ UpdateRatings(3, 1, TRUE, 7)
    \/ PredictWeek(1, 1)
    \/ EvaluatePredictions(1)

SpecForm == InitForm /\ [][NextForm]_vars

---------------------------------------------------------------------------
(* Claims about predictions and recent form (specification SpecForm) *)

ProbabilityPairOk(ret) ==
    /\ {"home_win_probability", "away_win_probability"} \subseteq DOMAIN ret
    /\ ret.home_win_probability \in 0..ONE
    /\ ret.away_win_probability \in 0..ONE
    /\ ret.home_win_probability + ret.away_win_probability = ONE

\* C5: every prediction returned by predict_game, of the base engine and of
\* the recent-form overlay, for known and unknown team ids alike, holds a
\* home_win_probability and an away_win_probability, each in [0,1], that sum
\* to 1.
C5_ProbabilityPairWellFormed ==
    last.op \in {"predict_game", "predict_game_recent_form"} => ProbabilityPairOk(last.ret)

\* an overlay prediction for an unknown home team that the form of the away
\* team moved away from the base prediction
C5_Witness ==
    /\ last.op = "predict_game_recent_form"
    /\ last.home \notin DOMAIN ratings
    /\ last.ret.home_win_probability # last.ret.base_home_prob
    /\ ProbabilityPairOk(last.ret)

\* the rating map with the two teams of a call entered at mean_rating when absent
Seeded(r, home_team_id, away_team_id) ==
    [t \in (DOMAIN r) \cup {home_team_id, away_team_id} |->
        IF t \in DOMAIN r THEN r[t] ELSE mean_rating]

\* C6: no engine operation raises for a team id absent from the rating map;
\* update_ratings and predict_game (base and overlay) act as if the absent
\* team were in the map with rating mean_rating, and update_ratings leaves
\* both teams of the call stored in the map.
C6_UnseenTeamTreatedAsMean ==
    /\ last.op = "update_ratings" =>
          /\ ~last.raised
          /\ {last.home, last.away} \subseteq DOMAIN ratings
          /\ ratings = UpdateRatingsMap(Seeded(last.old, last.home, last.away),
                                        last.home, last.away, last.home_won, last.margin)
    /\ last.op = "predict_game" =>
          /\ ~last.raised
          /\ last.ret = PredictGameResult(Seeded(ratings, last.home, last.away),
                                          last.home, last.away)
    /\ last.op = "predict_game_recent_form" =>
          /\ ~last.raised
          /\ last.ret = PredictGameRecentFormResult(Seeded(ratings, last.home, last.away),
                                                    games, last.home, last.away,
                                                    last.game_date)
    /\ last.op \in {"season_regression", "initialize_ratings", "get_team_recent_form"} =>
          ~last.raised

\* update_ratings has just stored a rating for a home team it had never seen
C6_Witness ==
    /\ last.op = "update_ratings"
    /\ last.home \notin DOMAIN last.old
    /\ last.home \in DOMAIN ratings
    /\ ratings[last.home] # mean_rating

FormRatingInRange(form) ==
    /\ form.form_rating >= -momentum_factor
    /\ form.form_rating <= momentum_factor

\* C10: whatever the game history of the team and whatever the cutoff date,
\* the form_rating returned by get_team_recent_form lies in
\* [-momentum_factor, +momentum_factor] = [-50, 50].
C10_FormRatingBounded ==
    /\ last.op = "get_team_recent_form" => FormRatingInRange(last.ret)
    /\ last.op = "predict_game_recent_form" =>
          FormRatingInRange(last.ret.home_form) /\ FormRatingInRange(last.ret.away_form)

\* a form computed from games before a cutoff date that sits at the upper cap
C10_Witness ==
    /\ last.op = "get_team_recent_form"
    /\ last.before_date # NoDate
    /\ last.ret.games_count >= 1
    /\ last.ret.form_rating = momentum_factor

---------------------------------------------------------------------------
(* PlayerValueSystem (specification SpecInjury).  Player values and impacts
   are in units of 1/FS point; multipliers are in tenths. *)

position_multipliers ==
    [QB |-> 30, RB |-> 15, WR |-> 13, TE |-> 11, OT |-> 12, OG |-> 9, C |-> 10,
     EDGE |-> 14, DT |-> 10, LB |-> 11, CB |-> 12, S |-> 10, K |-> 7, P |-> 5]

status_multipliers ==
    [Out |-> 10, Doubtful |-> 7, Questionable |-> 3, Probable |-> 1, Active |-> 0]

NoStats == [k \in {} |-> 0]                 \* pd.Series()

\* stats.get(key, default)
StatGet(stats, key, default) == IF key \in DOMAIN stats THEN stats[key] ELSE default

\* arithmetic on a stat that is None raises inside the try block
StatsRaise(stats, keys) == \E k \in keys \cap DOMAIN stats : stats[k] = None

\* float('nan'), a missing value of a pd.Series: arithmetic on it raises
\* nothing and gives nan, and so do min(nan, x) and max(nan, x)
NaN == -7777777
StatsNaN(stats, keys) == \E k \in keys \cap DOMAIN stats : stats[k] = NaN

\* min(num / den, cap) * (w100 / 100), for den > 0
Term(num, den, cap, w100) ==
    IF num >= cap * den THEN (cap * w100 * FS) \div 100
    ELSE RoundDiv(num * w100 * FS, den * 100)

QBKeys == {"passing_yards", "games", "passing_tds", "interceptions", "completions",
           "attempts", "qbr"}

calculate_qb_value(stats) ==
    IF StatsRaise(stats, QBKeys) THEN 50 * FS
    ELSE IF StatsNaN(stats, QBKeys) THEN NaN
    ELSE LET n_games == Max(StatGet(stats, "games", 1), 1)
             ints  == Max(StatGet(stats, "interceptions", 1), 1)
             atts  == Max(StatGet(stats, "attempts", 1), 1)
             value == Term(StatGet(stats, "passing_yards", 0), n_games * 3, 100, 25)
                      + Term(StatGet(stats, "passing_tds", 0) * 20, ints, 100, 25)
                      + RoundDiv(StatGet(stats, "completions", 0) * 20 * FS, atts)
                      + (StatGet(stats, "qbr", 50) * 30 * FS) \div 100
         IN  Min(value, 100 * FS)

SkillKeys(position) ==
    {"targets", "receptions", "receiving_yards", "receiving_tds", "games",
     "team_pass_attempts"}
    \cup (IF position = "RB" THEN {"carries", "rushing_yards", "rushing_tds"} ELSE {})

\* the stats that enter the value of the position (receiving_tds only for RB)
SkillValueKeys(position) ==
    IF position = "RB" THEN SkillKeys(position) ELSE SkillKeys(position) \ {"receiving_tds"}

calculate_skill_position_value(stats, position) ==
    IF StatsRaise(stats, SkillKeys(position)) THEN 30 * FS
    ELSE IF StatsNaN(stats, SkillValueKeys(position)) THEN NaN
    ELSE LET targets    == StatGet(stats, "targets", 0)
             receptions == StatGet(stats, "receptions", 0)
             rec_yards  == StatGet(stats, "receiving_yards", 0)
             rec_tds    == StatGet(stats, "receiving_tds", 0)
             carries    == IF position = "RB" THEN StatGet(stats, "carries", 0) ELSE 0
             rush_yards == IF position = "RB" THEN StatGet(stats, "rushing_yards", 0) ELSE 0
             rush_tds   == IF position = "RB" THEN StatGet(stats, "rushing_tds", 0) ELSE 0
             n_games      == Max(StatGet(stats, "games", 1), 1)
             attempts   == Max(StatGet(stats, "team_pass_attempts", 200), 1)
             value ==
                 IF position = "RB"
                 THEN Term(receptions + carries, n_games * 20, 1, 4000)
                      + Term(rec_yards + rush_yards, n_games * 100, 1, 3000)
                      + Term(rec_tds + rush_tds, n_games, 1, 2000)
                      + RoundDiv(targets * 100 * 10 * FS, attempts)
                 ELSE Term(receptions, n_games * 6, 1, 3000)
                      + Term(rec_yards, n_games * 80, 1, 4000)
                      + RoundDiv(targets * 100 * 30 * FS, attempts)
         IN  Min(value, 100 * FS)

DefensiveKeys == {"games", "tackles", "sacks", "interceptions", "passes_defended",
                  "forced_fumbles"}

\* the stats that enter the value of the position
DefensiveValueKeys(position) ==
    IF position \in {"EDGE", "DT"} THEN {"games", "sacks", "tackles", "forced_fumbles"}
    ELSE IF position \in {"CB", "S"} THEN {"games", "interceptions", "passes_defended", "tackles"}
    ELSE {"games", "tackles", "sacks", "interceptions", "forced_fumbles"}

calculate_defensive_value(stats, position) ==
    IF StatsRaise(stats, DefensiveKeys) THEN 30 * FS
    ELSE IF StatsNaN(stats, DefensiveValueKeys(position)) THEN NaN
    ELSE LET n_games           == Max(StatGet(stats, "games", 1), 1)
             tackles         == StatGet(stats, "tackles", 0)
             sacks           == StatGet(stats, "sacks", 0)
             ints            == StatGet(stats, "interceptions", 0)
             passes_defended == StatGet(stats, "passes_defended", 0)
             forced_fumbles  == StatGet(stats, "forced_fumbles", 0)
             value ==
                 IF position \in {"EDGE", "DT"}
                 THEN Term(sacks * 2, n_games, 1, 5000)
                      + Term(tackles, n_games * 5, 1, 3000)
                      + RoundDiv(forced_fumbles * 20 * FS, n_games)
                 ELSE IF position \in {"CB", "S"}
                 THEN Term(ints * 4, n_games, 1, 4000)
                      + Term(passes_defended, n_games, 1, 3000)
                      + Term(tackles, n_games * 5, 1, 3000)
                 ELSE Term(tackles, n_games * 8, 1, 4000)
                      + Term(sacks * 4, n_games, 1, 3000)
                      + RoundDiv((ints + forced_fumbles) * 30 * FS, n_games)
         IN  Min(value, 100 * FS)

\* the value get_player_value computes on a cache miss
ComputedPlayerValue(position, stats) ==
    LET base_value ==
            IF position = "QB" THEN calculate_qb_value(stats)
            ELSE IF position \in {"RB", "WR", "TE"}
                 THEN calculate_skill_position_value(stats, position)
            ELSE IF position \in {"EDGE", "DT", "LB", "CB", "S"}
                 THEN calculate_defensive_value(stats, position)
            ELSE 30 * FS
        position_mult == Get(position_multipliers, position, 10)
    IN  IF base_value = NaN THEN NaN ELSE RoundDiv(base_value * position_mult, 10)

\* the family calculators a get_player_value call invokes
CalculatorsInvoked(cache, player_name, position) ==
    IF player_name \in DOMAIN cache THEN <<>>
    ELSE IF position = "QB" THEN <<"calculate_qb_value">>
    ELSE IF position \in {"RB", "WR", "TE"} THEN <<"calculate_skill_position_value">>
    ELSE IF position \in {"EDGE", "DT", "LB", "CB", "S"} THEN <<"calculate_defensive_value">>
    ELSE <<>>

\* get_player_value without the cache lookup: the value is computed on every call
PlayerValue_Recomputed(cache, player_name, position, stats) ==
    ComputedPlayerValue(position, stats)

\* get_player_value: the value returned, and the cache it leaves
PlayerValue(cache, player_name, position, stats) ==
    Get(cache, player_name, ComputedPlayerValue(position, stats))

CacheAfter(cache, player_name, position, stats) ==
    Put(cache, player_name, PlayerValue(cache, player_name, position, stats))

\* calculate_injury_impact
calculate_injury_impact(player_value, injury_status) ==
    LET multiplier == Get(status_multipliers, injury_status, 0)
    IN  IF player_value = NaN THEN NaN ELSE -RoundDiv(player_value * multiplier, 10)

ImpactCap == -(150 * FS)

\* the loop of get_team_injury_impact over the records from position i on
RECURSIVE InjuryLoop(_, _, _, _)
InjuryLoop(cache, team_injuries, i, total_impact) ==
    IF i > Len(team_injuries) THEN [cache |-> cache, total_impact |-> total_impact]
    ELSE LET injury == team_injuries[i]
             player_value == PlayerValue(cache, injury.player_name, injury.position,
                                         injury.stats)
             impact == calculate_injury_impact(player_value, injury.status)
         IN  InjuryLoop(CacheAfter(cache, injury.player_name, injury.position, injury.stats),
                        team_injuries, i + 1,
                        IF total_impact = NaN \/ impact = NaN THEN NaN
                        ELSE total_impact + impact)

\* get_team_injury_impact: the value returned
TeamInjuryImpact(cache, team_injuries) ==
    LET total_impact == InjuryLoop(cache, team_injuries, 1, 0).total_impact
    IN  IF total_impact = NaN THEN NaN ELSE Max(total_impact, ImpactCap)

MaxInjuries == 2

\* injury records: 'player_name', 'position', 'status', 'stats'
InjuryRecords == {
    [player_name |-> "A", position |-> "QB", status |-> "Out",
     stats |-> ("passing_yards" :> 300 @@ "games" :> 1 @@ "passing_tds" :> 5
                @@ "interceptions" :> 1 @@ "completions" :> 20 @@ "attempts" :> 25
                @@ "qbr" :> 90)],
    [player_name |-> "B", position |-> "RB", status |-> "Out",
     stats |-> ("carries" :> 1 @@ "rushing_yards" :> -10 @@ "games" :> 1)],
    [player_name |-> "C", position |-> "WR", status |-> "Questionable",
     stats |-> ("receptions" :> 6 @@ "receiving_yards" :> 80 @@ "targets" :> 10)],
    [player_name |-> "D", position |-> "K", status |-> "Doubtful", stats |-> NoStats],
    [player_name |-> "E", position |-> "LB", status |-> "IR",
     stats |-> ("tackles" :> 8 @@ "sacks" :> 0)],
    [player_name |-> "A", position |-> "K", status |-> "Out", stats |-> NoStats],
    [player_name |-> "B", position |-> "CB", status |-> "Active",
     stats |-> ("interceptions" :> 1 @@ "passes_defended" :> 1 @@ "tackles" :> 5)],
    [player_name |-> "D", position |-> "EDGE", status |-> "Probable",
     stats |-> ("sacks" :> None @@ "tackles" :> 5)],
    [player_name |-> "F", position |-> "QB", status |-> "Questionable",
     stats |-> ("passing_yards" :> 300 @@ "qbr" :> None)],
    [player_name |-> "G", position |-> "WR", status |-> "Out",
     stats |-> ("receptions" :> NaN @@ "receiving_yards" :> 80)] }

RECURSIVE ListsUpTo(_, _)
ListsUpTo(records, n) ==
    IF n = 0 THEN {<<>>}
    ELSE LET shorter == ListsUpTo(records, n - 1)
         IN  shorter \cup {Append(l, r) : l \in shorter, r \in records}

InjuryLists == ListsUpTo(InjuryRecords, MaxInjuries)

InitInjury ==
    /\ ratings = EmptyRatings
    /\ reversion_factor = DefaultReversion
    /\ games = <<>>
    /\ elo_rating = [t \in DBTeams |-> mean_rating]
    /\ player_values = EmptyRatings
    /\ nops = 0
    /\ last = NoCall
    /\ threads = NoThreads

GetPlayerValue(player_name, position, stats) ==
    /\ CanCall
    /\ nops' = nops + 1
    /\ player_values' = CacheAfter(player_values, player_name, position, stats)
    /\ last' = [op |-> "get_player_value", player_name |-> player_name,
                position |-> position, stats |-> stats,
                old |-> player_values,
                calculators |-> CalculatorsInvoked(player_values, player_name, position),
                ret |-> PlayerValue(player_values, player_name, position, stats),
                raised |-> FALSE]
    /\ UNCHANGED <<ratings, reversion_factor, games, elo_rating, threads>>

GetTeamInjuryImpact(team_injuries) ==
    /\ CanCall
    /\ nops' = nops + 1
    /\ player_values' = InjuryLoop(player_values, team_injuries, 1, 0).cache
    /\ last' = [op |-> "get_team_injury_impact", team_injuries |-> team_injuries,
                old |-> player_values,
                ret |-> TeamInjuryImpact(player_values, team_injuries),
                raised |-> FALSE]
    /\ UNCHANGED <<ratings, reversion_factor, games, elo_rating, threads>>

\* the statuses of the table of calculate_injury_impact, the statuses the
\* injury adapter emits (espn_injury_adapter.py status_mapping), and one other
InjuryStatuses == {"Out", "Doubtful", "Questionable", "Probable", "Active",
                   "OUT", "DOUBTFUL", "QUESTIONABLE", "PROBABLE", "ACTIVE", "IR"}
PlayerValueInputs == {0, 30 * FS, 100 * FS}

CalculateInjuryImpact(player_value, injury_status) ==
    /\ CanCall
    /\ nops' = nops + 1
    /\ last' = [op |-> "calculate_injury_impact", player_value |-> player_value,
                injury_status |-> injury_status,
                ret |-> calculate_injury_impact(player_value, injury_status),
                raised |-> FALSE]
    /\ UNCHANGED <<ratings, reversion_factor, games, elo_rating, player_values, threads>>

NextInjury ==
    \/ \E r \in InjuryRecords : GetPlayerValue(r.player_name, r.position, r.stats)
    \/ \E l \in InjuryLists : GetTeamInjuryImpact(l)
    \/ \E v \in PlayerValueInputs \cup {player_values[n] : n \in DOMAIN player_values},
          st \in InjuryStatuses : CalculateInjuryImpact(v, st)

SpecInjury == InitInjury /\ [][NextInjury]_vars

---------------------------------------------------------------------------
(* Claim about the injury impact (specification SpecInjury) *)

\* C9: for every list of injury records, whatever the players, positions,
\* statuses and stats, get_team_injury_impact returns a value in [-150, 0].
C9_InjuryImpactInRange ==
    last.op = "get_team_injury_impact" => (last.ret >= ImpactCap /\ last.ret <= 0)

---------------------------------------------------------------------------
(* Claims about player values (specification SpecInjury) *)

\* C11: the value returned by get_player_value is in [0,100], for every
\* position and every stats record.
C11_PlayerValueInRange ==
    last.op = "get_player_value" => (last.ret >= 0 /\ last.ret <= 100 * FS)

\* the severity factor, in tenths, that the claim gives for a status
ClaimedFactor(injury_status) ==
    IF injury_status = "OUT" THEN 10
    ELSE IF injury_status = "DOUBTFUL" THEN 7
    ELSE IF injury_status = "QUESTIONABLE" THEN 3
    ELSE IF injury_status = "PROBABLE" THEN 1
    ELSE 0

\* C12: calculate_injury_impact(player_value, status) returns
\* -(player_value x factor) with factor 1.0 for status OUT, 0.7 for DOUBTFUL,
\* 0.3 for QUESTIONABLE, 0.1 for PROBABLE and 0.0 for ACTIVE; a player of
\* positive value with status OUT gets the strictly negative impact
\* -player_value.
C12_StatusFactors ==
    (last.op = "calculate_injury_impact"
        /\ last.injury_status \in {"OUT", "DOUBTFUL", "QUESTIONABLE", "PROBABLE", "ACTIVE"})
    => /\ last.ret = -RoundDiv(last.player_value * ClaimedFactor(last.injury_status), 10)
       /\ (last.injury_status = "OUT" /\ last.player_value > 0) => last.ret = -last.player_value

\* C13: once get_player_value has been called for a player name, every later
\* call with that name returns the value of the first call, whatever position
\* and stats it passes, invokes no family calculator, and the cached value of
\* a name never changes.
C13_CachedValueReturned ==
    [][/\ \A n \in DOMAIN player_values :
             n \in DOMAIN player_values' /\ player_values'[n] = player_values[n]
       /\ (last'.op = "get_player_value" /\ last'.player_name \in DOMAIN player_values)
             => /\ last'.ret = player_values[last'.player_name]
                /\ last'.calculators = <<>>]_vars

\* a call for a cached name whose position and stats would give another value
C13_Witness ==
    /\ last.op = "get_player_value"
    /\ last.player_name \in DOMAIN last.old
    /\ last.ret = last.old[last.player_name]
    /\ last.ret # ComputedPlayerValue(last.position, last.stats)

---------------------------------------------------------------------------
(* Claims about the frame and the shape of predictions (specification SpecForm) *)

ReadOnlyOps == {"predict_game", "predict_game_recent_form", "predict_week",
                "evaluate_predictions", "get_team_recent_form"}

\* C14: predict_game (base and overlay), predict_week, evaluate_predictions
\* and get_team_recent_form leave the in-memory rating map as it was: no
\* rating is modified and no entry is added, also for teams not in the map.
C14_ReadOnlyCallsKeepRatings ==
    [][last'.op \in ReadOnlyOps => ratings' = ratings]_vars

\* predict_week has predicted a game of a team that the non-empty map does
\* not hold, and the map still does not hold it
C14_Witness ==
    /\ last.op = "predict_week"
    /\ Len(last.ret) >= 1
    /\ ratings # EmptyRatings
    /\ games[last.ret[1].game_id].away_team_id \notin DOMAIN ratings

BaseFields == {"home_win_probability", "away_win_probability", "predicted_spread",
               "predicted_home_score", "predicted_away_score", "confidence"}

\* C16 as stated: the overlay's predict_game result holds every field of the
\* base result (home_win_probability, away_win_probability, predicted_spread,
\* predicted_home_score, predicted_away_score, confidence) and in addition
\* home_form, away_form and the form adjustment.
C16_OverlayHasBaseFields ==
    last.op = "predict_game_recent_form" =>
        BaseFields \cup {"home_form", "away_form", "form_adjustment"} \subseteq DOMAIN last.ret

\* C16 amended: the overlay's result holds exactly home_win_probability,
\* away_win_probability, predicted_spread, model_type, home_form, away_form,
\* base_home_prob, base_away_prob and form_adjustment; of the base result's
\* fields it lacks predicted_home_score, predicted_away_score, confidence,
\* home_elo and away_elo, which the base result holds.
C16_OverlayFieldsExact ==
    /\ last.op = "predict_game_recent_form" =>
          DOMAIN last.ret = {"home_win_probability", "away_win_probability",
                             "predicted_spread", "model_type", "home_form", "away_form",
                             "base_home_prob", "base_away_prob", "form_adjustment"}
    /\ last.op = "predict_game" =>
          DOMAIN last.ret = BaseFields \cup {"home_elo", "away_elo"}

\* an overlay prediction made from a table with a scored game of the home team
C16_Witness ==
    /\ last.op = "predict_game_recent_form"
    /\ last.ret.home_form.games_count >= 1
    /\ "confidence" \notin DOMAIN last.ret

---------------------------------------------------------------------------
(* Claim about persistence (specification SpecTrain) *)

\* C15 as stated: train_on_historical_data changes only the in-memory rating
\* map; the persisted team ratings are as they were before the call.
C15_TrainLeavesStoreUnchanged ==
    last.op = "train_on_historical_data" => elo_rating = last.old_elo_rating

\* C15 amended: a train_on_historical_data call that returns has written the
\* in-memory rating of every team of the store to that team's persisted
\* rating; a call that raises leaves the persisted ratings as they were.
C15_TrainSavesRatings ==
    last.op = "train_on_historical_data" =>
        IF last.raised THEN elo_rating = last.old_elo_rating
        ELSE \A t \in DBTeams : t \in DOMAIN ratings /\ elo_rating[t] = ratings[t]

\* a training call that returned and changed a persisted rating
C15_Witness ==
    /\ last.op = "train_on_historical_data"
    /\ ~last.raised
    /\ elo_rating # last.old_elo_rating

---------------------------------------------------------------------------
(* Claim about repeated regression (specification Spec) *)

\* C17 as stated: season_regression is idempotent; applying it again to the
\* map it has just produced changes nothing.
C17_RegressionIdempotent ==
    last.op = "season_regression" =>
        SeasonRegressionMap(ratings, reversion_factor) = ratings

\* rating `new` is rating `old` with its distance to the mean multiplied by
\* (1 - rf), to within one stored unit
ScaledTowardsMean(old, new, rf) ==
    Abs(ONE * (new - mean_rating) - (ONE - rf) * (old - mean_rating)) <= ONE

\* C17 amended: every application of season_regression multiplies each
\* rating's distance to mean_rating by (1 - reversion_factor), to within
\* rounding, the second application like the first; a repeated application
\* leaves the map as it is when reversion_factor is 0.
C17_RegressionScalesEachTime ==
    last.op = "season_regression" =>
        \A t \in DOMAIN ratings :
            LET again == SeasonRegressionMap(ratings, reversion_factor)[t]
            IN  /\ DOMAIN last.old = DOMAIN ratings
                /\ ScaledTowardsMean(last.old[t], ratings[t], reversion_factor)
                /\ ScaledTowardsMean(ratings[t], again, reversion_factor)
                /\ reversion_factor = 0 => (ratings[t] = last.old[t] /\ again = ratings[t])

\* a regressed map that a second regression would change
C17_Witness ==
    /\ last.op = "season_regression"
    /\ reversion_factor # 0
    /\ \E t \in DOMAIN ratings :
          /\ ratings[t] # last.old[t]
          /\ SeasonRegressionMap(ratings, reversion_factor)[t] # ratings[t]

---------------------------------------------------------------------------
(* Claims about the order of a training pass (specifications SpecTrain and
   SpecOrder) *)

RegressionCalls(calls, season) ==
    {i \in 1..Len(calls) : calls[i].call = "season_regression" /\ calls[i].season = season}

UpdateCalls(calls) == {i \in 1..Len(calls) : calls[i].call = "update_ratings"}

UpdateCallsOf(calls, id) == {i \in UpdateCalls(calls) : calls[i].game.id = id}

\* the ids of the games with both scores in the seasons start..end
CompletedIds(tbl, start_season, end_season) ==
    {i \in 1..Len(tbl) : /\ tbl[i].season \in start_season..end_season
                         /\ tbl[i].home_score # None
                         /\ tbl[i].away_score # None}

\* C18: in train_on_historical_data(start, end) the seasons are processed in
\* ascending order; season_regression is applied exactly once at the start of
\* every season after the first, before any game of that season, and never
\* for the first season; and update_ratings is applied exactly once for each
\* completed game of each season of the range.
C18_TrainingSchedule ==
    last.op = "train_on_historical_data" =>
        LET calls == last.calls
        IN  /\ \A i, j \in 1..Len(calls) : i < j => calls[i].season <= calls[j].season
            /\ RegressionCalls(calls, last.start_season) = {}
            /\ \A s \in (last.start_season + 1)..last.end_season :
                  /\ Cardinality(RegressionCalls(calls, s)) = 1
                  /\ \A i \in RegressionCalls(calls, s), j \in UpdateCalls(calls) :
                        calls[j].season = s => i < j
            /\ \A id \in CompletedIds(games, last.start_season, last.end_season) :
                  Cardinality(UpdateCallsOf(calls, id)) = 1
            /\ \A j \in UpdateCalls(calls) :
                  calls[j].game.id \in CompletedIds(games, last.start_season, last.end_season)

\* C19: within a season, train_on_historical_data applies update_ratings in
\* non-decreasing game_date order, whatever weeks and dates the games carry.
C19_GamesInDateOrder ==
    last.op = "train_on_historical_data" =>
        \A i, j \in UpdateCalls(last.calls) :
            (i < j /\ last.calls[i].season = last.calls[j].season)
                => last.calls[i].game.game_date <= last.calls[j].game.game_date

---------------------------------------------------------------------------
(* EloManager (specification SpecManager) *)

\* EloModel.load_ratings_from_db: the map becomes the persisted ratings of
\* the teams of the store
LoadRatingsFromDb(stored) == [t \in DBTeams |-> stored[t]]

\* the update both EloManager passes apply for one game
ManagerUpdate(r, g) ==
    LET home_rating   == Get(r, g.home_team_id, 1500 * RS)
        away_rating   == Get(r, g.away_team_id, 1500 * RS)
        home_expected == RoundDiv(ONE * ONE,
                                  ONE + Pow10(away_rating - home_rating - 65 * RS, 400 * RS))
        home_won      == IF g.home_score > g.away_score THEN 1 ELSE 0
        rating_change == RoundDiv(32 * FS * (home_won * ONE - home_expected), ONE)
    IN  Put(Put(r, g.home_team_id, StoreSum(home_rating, rating_change)),
            g.away_team_id, StoreSum(away_rating, -rating_change))

\* EloManager._save_ratings
EloManagerSaveRatings(r, stored) ==
    [t \in DBTeams |-> IF t \in DOMAIN r THEN r[t] ELSE stored[t]]

\* the loop of incremental_update over game_ids from position i on; `applied`
\* lists the ids whose update was applied
RECURSIVE IncrementalLoop(_, _, _, _)
IncrementalLoop(r, tbl, game_ids, i) ==
    IF i > Len(game_ids) THEN [ratings |-> r, raised |-> FALSE, applied |-> <<>>]
    ELSE LET game_id == game_ids[i]
         IN  IF game_id \notin 1..Len(tbl) \/ tbl[game_id].home_score = None
             THEN IncrementalLoop(r, tbl, game_ids, i + 1)
             ELSE IF tbl[game_id].away_score = None
             THEN [ratings |-> r, raised |-> TRUE, applied |-> <<>>]
             ELSE LET rest == IncrementalLoop(ManagerUpdate(r, tbl[game_id]), tbl,
                                              game_ids, i + 1)
                  IN  [rest EXCEPT !.applied = <<game_id>> \o @]

\* ORDER BY game_date: rows with equal dates stay in primary-key order
RECURSIVE InsertByDate(_, _)
InsertByDate(sorted, g) ==
    IF sorted = <<>> THEN <<g>>
    ELSE IF g.game_date < Head(sorted).game_date THEN <<g>> \o sorted
    ELSE <<Head(sorted)>> \o InsertByDate(Tail(sorted), g)

RECURSIVE OrderByDate(_)
OrderByDate(rows) ==
    IF rows = <<>> THEN <<>>
    ELSE InsertByDate(OrderByDate(SubSeq(rows, 1, Len(rows) - 1)), rows[Len(rows)])

\* the query of quick_retrain_recent
RecentCompletedGames(tbl, cutoff_date) ==
    OrderByDate(SelectSeq(WithIds(tbl), LAMBDA g :
        g.home_score # None /\ g.away_score # None /\ g.game_date >= cutoff_date))

\* the loop of quick_retrain_recent over recent_games from position i on
RECURSIVE QuickRetrainLoop(_, _, _)
QuickRetrainLoop(r, recent_games, i) ==
    IF i > Len(recent_games) THEN [ratings |-> r, applied |-> <<>>]
    ELSE LET rest == QuickRetrainLoop(ManagerUpdate(r, recent_games[i]), recent_games, i + 1)
         IN  [rest EXCEPT !.applied = <<recent_games[i].id>> \o @]

ManagerRows == GameRows({1}, {1}, Dates, {<<1, 2>>}, {<<21, 7>>, <<None, None>>, <<7, None>>})
GameIdLists == {<<1>>, <<1, 1>>, <<1, 2>>, <<2, 3>>}

InitManager ==
    /\ ratings = EmptyRatings
    /\ reversion_factor = DefaultReversion
    /\ games \in TablesUpTo(ManagerRows, MaxGames)
    /\ elo_rating = [t \in DBTeams |-> mean_rating]
    /\ player_values = EmptyRatings
    /\ nops = 0
    /\ last = NoCall
    /\ threads = NoThreads

IncrementalUpdate(game_ids) ==
    /\ CanCall
    /\ nops' = nops + 1
    /\ LET res == IncrementalLoop(LoadRatingsFromDb(elo_rating), games, game_ids, 1)
       IN  /\ ratings' = res.ratings
           /\ elo_rating' = IF res.raised THEN elo_rating
                            ELSE EloManagerSaveRatings(res.ratings, elo_rating)
           /\ last' = [op |-> "incremental_update", game_ids |-> game_ids,
                       old_elo_rating |-> elo_rating,
                       applied |-> res.applied,
                       persisted_games |-> IF res.raised THEN PersistedGames
                                           ELSE PersistedGames \o res.applied,
                       raised |-> res.raised]
    /\ UNCHANGED <<reversion_factor, games, player_values, threads>>

QuickRetrainRecent(cutoff_date) ==
    /\ CanCall
    /\ nops' = nops + 1
    /\ LET recent_games == RecentCompletedGames(games, cutoff_date)
           res == QuickRetrainLoop(LoadRatingsFromDb(elo_rating), recent_games, 1)
       IN  /\ ratings' = res.ratings
           /\ elo_rating' = IF recent_games = <<>> THEN elo_rating
                            ELSE EloManagerSaveRatings(res.ratings, elo_rating)
           /\ last' = [op |-> "quick_retrain_recent", cutoff_date |-> cutoff_date,
                       old_elo_rating |-> elo_rating,
                       applied |-> res.applied,
                       persisted_games |-> PersistedGames \o res.applied,
                       raised |-> FALSE]
    /\ UNCHANGED <<reversion_factor, games, player_values, threads>>

NextManager ==
    \/ \E ids \in GameIdLists : IncrementalUpdate(ids)
    \/ \E d \in Dates : QuickRetrainRecent(d)
    \/ TrainOnHistoricalData(1, 1)

SpecManager == InitManager /\ [][NextManager]_vars

---------------------------------------------------------------------------
(* Claim about repeated passes (specification SpecManager) *)

\* C20: across any sequence of rating-update passes (train_on_historical_data,
\* quick_retrain_recent, incremental_update), with repeated runs and repeated
\* game ids in one run, each completed game's result is applied to the
\* persisted ratings exactly once: no game is counted twice.
C20_NoGameCountedTwice ==
    last.op \in {"train_on_historical_data", "quick_retrain_recent", "incremental_update"} =>
        \A i, j \in 1..Len(last.persisted_games) :
            i # j => last.persisted_games[i] # last.persisted_games[j]

\* ---------------------------------------------------------------------------
\* get_team_recent_form over histories longer than games_to_consider
\* ---------------------------------------------------------------------------

MaxHistory == 4
RecentRows ==
    GameRows({1}, {1}, Dates, {<<1, 2>>}, {<<21, 7>>, <<7, 21>>, <<7, None>>})
    \cup GameRows({1}, {1}, {1}, {<<2, 3>>}, {<<21, 7>>})

InitRecent ==
    /\ ratings = EmptyRatings
    /\ reversion_factor = DefaultReversion
    /\ games \in TablesUpTo(RecentRows, MaxHistory)
    /\ elo_rating = [t \in DBTeams |-> mean_rating]
    /\ player_values = EmptyRatings
    /\ nops = 0
    /\ last = NoCall
    /\ threads = NoThreads

NextRecent ==
    \E team_id \in {1, 2}, before_date \in {NoDate, 2} : GetTeamRecentForm(team_id, before_date)

SpecRecent == InitRecent /\ [][NextRecent]_vars

\* a completed game of the team dated strictly before the cutoff (any game
\* when no cutoff is given)
Eligible(g, team_id, before_date) ==
    /\ (g.home_team_id = team_id \/ g.away_team_id = team_id)
    /\ g.home_score # None
    /\ g.away_score # None
    /\ (before_date # NoDate => g.game_date < before_date)

EligibleIds(team_id, before_date) ==
    {i \in 1..Len(games) : Eligible(games[i], team_id, before_date)}

\* C23: get_team_recent_form considers only completed games of the team dated
\* strictly before before_date, at most games_to_consider of them, the most
\* recent ones, most recent first; the snapshot is the one of the table with
\* every other game removed.
C23_RecentGamesSelection ==
    last.op = "get_team_recent_form" =>
        LET c == last.recent_games
            t == last.team_id
            d == last.before_date
            ids == {c[i].id : i \in 1..Len(c)}
        IN  /\ \A i \in 1..Len(c) :
                /\ c[i].id \in EligibleIds(t, d)
                /\ WithIds(games)[c[i].id] = c[i]
            /\ Cardinality(ids) = Len(c)
            /\ Len(c) = Min(games_to_consider, Cardinality(EligibleIds(t, d)))
            /\ \A i, j \in 1..Len(c) : i < j => c[i].game_date >= c[j].game_date
            /\ \A k \in EligibleIds(t, d) \ ids :
                \A i \in 1..Len(c) : c[i].game_date >= games[k].game_date
            /\ last.ret.games_count = Len(c)
            /\ last.ret = RecentForm(SelectSeq(games, LAMBDA g : Eligible(g, t, d)), t, NoDate)

\* a call with a cutoff that considers games_to_consider games while the team
\* also has a completed game at the cutoff date
C23_Witness ==
    /\ last.op = "get_team_recent_form"
    /\ last.before_date = 2
    /\ Len(last.recent_games) = games_to_consider
    /\ \E i \in 1..Len(games) : Eligible(games[i], last.team_id, NoDate) /\ games[i].game_date = 2

\* the team's point differential in a game, in points
PointDiffOf(g, team_id) ==
    IF g.home_team_id = team_id THEN g.home_score - g.away_score
    ELSE g.away_score - g.home_score

WonBy(g, team_id) == PointDiffOf(g, team_id) > 0

\* C24: avg_point_diff lies between the smallest and the largest point
\* differential of the considered games (it is their weighted average), and
\* win_rate lies in [0, 1].
C24_WeightedAverages ==
    (last.op = "get_team_recent_form" /\ Len(last.recent_games) > 0) =>
        LET c == last.recent_games
            diffs == {PointDiffOf(c[i], last.team_id) : i \in 1..Len(c)}
        IN  /\ \E lo \in diffs : lo * RS <= last.ret.avg_point_diff
            /\ \E hi \in diffs : last.ret.avg_point_diff <= hi * RS
            /\ last.ret.win_rate >= 0
            /\ last.ret.win_rate <= ONE

\* C25: momentum is 'hot' (+20) exactly when the most recent considered game
\* was a win and the oldest was not, 'cold' (-20) exactly when the most recent
\* was not a win and the oldest was, 'neutral' (0) otherwise, also with fewer
\* than 2 considered games; the boost shows in form_rating.
C25_MomentumLabel ==
    (last.op = "get_team_recent_form" /\ Len(last.recent_games) > 0) =>
        LET c == last.recent_games
            t == last.team_id
            newest == WonBy(c[1], t)
            oldest == WonBy(c[Len(c)], t)
            label == IF Len(c) >= 2 /\ newest /\ ~oldest THEN "hot"
                     ELSE IF Len(c) >= 2 /\ ~newest /\ oldest THEN "cold"
                     ELSE "neutral"
            boost == IF label = "hot" THEN 20 * RS
                     ELSE IF label = "cold" THEN -(20 * RS) ELSE 0
            uncapped == RoundDiv((last.ret.win_rate - ONE \div 2) * 100 * RS, ONE)
                        + 2 * last.ret.avg_point_diff + boost
        IN  /\ last.ret.momentum = label
            /\ Abs(last.ret.form_rating
                   - Max(-momentum_factor, Min(momentum_factor, uncapped))) <= 1

\* three considered games, the most recent one won and the oldest one lost,
\* with a form rating inside the cap
C25_Witness ==
    /\ last.op = "get_team_recent_form"
    /\ Len(last.recent_games) = 3
    /\ WonBy(last.recent_games[1], last.team_id)
    /\ ~WonBy(last.recent_games[3], last.team_id)
    /\ last.ret.momentum = "hot"
    /\ Abs(last.ret.form_rating) < momentum_factor

\* ---------------------------------------------------------------------------
\* The overlay against the base engine
\* ---------------------------------------------------------------------------

\* the base engine's rating gap: home_rating + home_advantage - away_rating
BaseGap(home_team_id, away_team_id) ==
    Get(ratings, home_team_id, mean_rating) + home_advantage
    - Get(ratings, away_team_id, mean_rating)

\* C30: when neither team has a completed game before the cutoff, the
\* overlay's home_win_probability equals base_home_prob (the base engine's
\* probability) and its predicted_spread equals the base engine's; in every
\* case the adjusted rating gap is the base gap plus the two form adjustments,
\* which differ by at most 30 rating points.
C30_OverlayNearBase ==
    last.op = "predict_game_recent_form" =>
        LET base == PredictGameResult(ratings, last.home, last.away)
            shift == last.ret.form_adjustment.home - last.ret.form_adjustment.away
        IN  /\ (last.ret.home_form.games_count = 0 /\ last.ret.away_form.games_count = 0) =>
                /\ last.ret.home_win_probability = last.ret.base_home_prob
                /\ last.ret.home_win_probability = base.home_win_probability
                /\ last.ret.predicted_spread = base.predicted_spread
            /\ Abs(shift) <= 30 * RS
            /\ last.ret.predicted_spread = RoundDiv(BaseGap(last.home, last.away) + shift, 25)
            /\ last.ret.home_win_probability
                   = ExpectedScore(BaseGap(last.home, last.away) + shift, 0)

\* an overlay prediction between two teams without completed games, after an
\* update has moved the home team's rating off the mean
C30_Witness ==
    /\ last.op = "predict_game_recent_form"
    /\ last.ret.home_form.games_count = 0
    /\ last.ret.away_form.games_count = 0
    /\ last.home \in DOMAIN ratings
    /\ ratings[last.home] # mean_rating

\* an overlay prediction whose form adjustments move the gap
C30_WitnessShifted ==
    /\ last.op = "predict_game_recent_form"
    /\ last.ret.form_adjustment.home - last.ret.form_adjustment.away > 20 * RS

---------------------------------------------------------------------------
(* Claim about malformed statistics (specification SpecInjury) *)

\* the stats a position's calculator reads
ConsultedKeys(position) ==
    IF position = "QB" THEN QBKeys
    ELSE IF position \in {"RB", "WR", "TE"} THEN SkillKeys(position)
    ELSE IF position \in {"EDGE", "DT", "LB", "CB", "S"} THEN DefensiveKeys
    ELSE {}

\* a record with a stat of its calculator that is not a number
Malformed(position, stats) ==
    \E k \in ConsultedKeys(position) \cap DOMAIN stats : stats[k] \in {None, NaN}

\* the calculator's default with the position multiplier applied
DefaultPlayerValue(position) ==
    RoundDiv((IF position = "QB" THEN 50 * FS ELSE 30 * FS)
             * Get(position_multipliers, position, 10), 10)

\* the value the claim gives the player of record i of a batch: the cached
\* one, else the default when the record that first names the player is
\* malformed, else the computed one
ClaimedValue(old, l, i) ==
    LET name == l[i].player_name
        first == CHOOSE j \in 1..i :
                    /\ l[j].player_name = name
                    /\ \A m \in 1..(j - 1) : l[m].player_name # name
    IN  IF name \in DOMAIN old THEN old[name]
        ELSE IF Malformed(l[first].position, l[first].stats)
             THEN DefaultPlayerValue(l[first].position)
        ELSE ComputedPlayerValue(l[first].position, l[first].stats)

RECURSIVE ClaimedTotal(_, _, _)
ClaimedTotal(old, l, n) ==
    IF n = 0 THEN 0
    ELSE ClaimedTotal(old, l, n - 1)
         - RoundDiv(ClaimedValue(old, l, n) * Get(status_multipliers, l[n].status, 0), 10)

\* C27: a malformed stat never makes get_player_value or
\* get_team_injury_impact raise; the player's base value is the calculator's
\* default (50 for QB, 30 for skill and defensive positions) and the batch
\* total is the capped sum over all records with that default in place.
C27_MalformedStatGivesDefault ==
    /\ (last.op = "get_player_value" /\ last.player_name \notin DOMAIN last.old
        /\ Malformed(last.position, last.stats)) =>
            /\ ~last.raised
            /\ last.ret = DefaultPlayerValue(last.position)
    /\ last.op = "get_team_injury_impact" =>
            /\ ~last.raised
            /\ last.ret = Max(ClaimedTotal(last.old, last.team_injuries,
                                           Len(last.team_injuries)), ImpactCap)

---------------------------------------------------------------------------
(* Updates between distinct teams and regressions from an all-mean map
   (specification SpecZeroSum) *)

\* the maps the calls start from: no team tracked, every team at mean_rating,
\* and those two after one earlier update_ratings call between teams 1 and 2
MapsFromMean ==
    LET all_mean == {EmptyRatings, [t \in Teams |-> mean_rating]}
    IN  all_mean \cup {UpdateRatingsMap(r, 1, 2, w, 0) : r \in all_mean, w \in BOOLEAN}

InitZeroSum ==
    /\ ratings \in MapsFromMean
    /\ reversion_factor \in ReversionFactors
    /\ games = <<>>
    /\ elo_rating = [t \in DBTeams |-> mean_rating]
    /\ player_values = EmptyRatings
    /\ nops = 0
    /\ last = NoCall
    /\ threads = NoThreads

NextZeroSum ==
    \/ \E h \in Teams : \E a \in Teams \ {h}, w \in BOOLEAN, m \in Margins :
            UpdateRatings(h, a, w, m)
    \/ SeasonRegression

SpecZeroSum == InitZeroSum /\ [][NextZeroSum]_vars

\* the sum over the tracked teams of rating - mean_rating, in rating units
RECURSIVE SumOfDeviations(_, _)
SumOfDeviations(r, teams) ==
    IF teams = {} THEN 0
    ELSE LET t == CHOOSE x \in teams : TRUE
         IN  (r[t] - mean_rating) + SumOfDeviations(r, teams \ {t})

TotalDeviation == SumOfDeviations(ratings, DOMAIN ratings)

\* C28 as stated: after any sequence of update_ratings calls between distinct
\* teams and season_regression calls from an all-mean map, the sum over the
\* tracked teams of rating - mean_rating is exactly 0.
C28_TotalDeviationZero == TotalDeviation = 0

\* C28 amended: the sum stays 0 to within rounding: each update_ratings call
\* (the one before the start included) can add one rounding unit and each
\* season_regression one unit per tracked team.
C28_TotalDeviationWithinRounding ==
    Abs(TotalDeviation) <= (nops + 1) * Cardinality(DOMAIN ratings)

\* an update followed by a regression has left ratings away from the mean
C28_Witness ==
    /\ nops = 2
    /\ last.op = "season_regression"
    /\ last.old # ratings
    /\ Cardinality(DOMAIN ratings) = 3
    /\ \E t \in DOMAIN ratings : ratings[t] # mean_rating

---------------------------------------------------------------------------
(* Training passes that are interrupted, and tied games (specification
   SpecReplay) *)

ReplayRows ==
    GameRows({1}, {1}, {1}, {<<1, 2>>}, {<<21, 7>>, <<7, 21>>, <<7, 7>>})
    \cup GameRows({2}, {1}, {1}, {<<1, 2>>}, {<<21, 7>>, <<7, 7>>})

InitReplay ==
    /\ ratings = EmptyRatings
    /\ reversion_factor = DefaultReversion
    /\ games \in TablesUpTo(ReplayRows, MaxGames)
    /\ elo_rating = [t \in DBTeams |-> mean_rating]
    /\ player_values = EmptyRatings
    /\ nops = 0
    /\ last = NoCall
    /\ threads = NoThreads

\* an interrupted pass that leaves the rating map as it found it
TrainInterrupted_MapRestored(start_season, end_season, season, replayed) ==
    /\ CanCall
    /\ season \in start_season..end_season
    /\ replayed \in 0..Len(SeasonGamesOrdered(WithIds(games), season))
    /\ nops' = nops + 1
    /\ LET tbl == WithIds(games)
           done == TrainSeasons(InitializeRatingsMap(ratings), tbl, reversion_factor,
                                start_season, start_season, season - 1)
           regressed == IF season > start_season
                        THEN SeasonRegressionMap(done.ratings, reversion_factor)
                        ELSE done.ratings
           regress_calls == IF season > start_season
                            THEN <<[call |-> "season_regression", season |-> season]>>
                            ELSE <<>>
           season_games == SeasonGamesOrdered(tbl, season)
           partial == ReplayGames(regressed, SubSeq(season_games, 1, replayed), 1)
       IN  /\ ~done.raised /\ ~partial.raised
           /\ ratings' = ratings
           /\ last' = [op |-> "train_on_historical_data interrupted",
                       start_season |-> start_season, end_season |-> end_season,
                       season |-> season, replayed |-> replayed,
                       season_games |-> Len(season_games),
                       old |-> ratings, old_elo_rating |-> elo_rating,
                       calls |-> done.calls \o regress_calls \o partial.calls,
                       persisted_games |-> PersistedGames,
                       raised |-> TRUE]
    /\ UNCHANGED <<reversion_factor, games, elo_rating, player_values, threads>>

\* train_on_historical_data(start_season, end_season) interrupted while it
\* processes `season`, after that season's regression (if it has one) and
\* after `replayed` of its games: by a cancellation, or with replayed = 0 by
\* a failure of the season's query.  The exception leaves through
\* get_db_context, which rolls back or closes the session without a commit:
\* the store keeps its ratings, the map keeps every assignment made so far.
TrainInterrupted(start_season, end_season, season, replayed) ==
    /\ CanCall
    /\ season \in start_season..end_season
    /\ replayed \in 0..Len(SeasonGamesOrdered(WithIds(games), season))
    /\ nops' = nops + 1
    /\ LET tbl == WithIds(games)
           done == TrainSeasons(InitializeRatingsMap(ratings), tbl, reversion_factor,
                                start_season, start_season, season - 1)
           regressed == IF season > start_season
                        THEN SeasonRegressionMap(done.ratings, reversion_factor)
                        ELSE done.ratings
           regress_calls == IF season > start_season
                            THEN <<[call |-> "season_regression", season |-> season]>>
                            ELSE <<>>
           season_games == SeasonGamesOrdered(tbl, season)
           partial == ReplayGames(regressed, SubSeq(season_games, 1, replayed), 1)
       IN  /\ ~done.raised /\ ~partial.raised
           /\ ratings' = partial.ratings
           /\ last' = [op |-> "train_on_historical_data interrupted",
                       start_season |-> start_season, end_season |-> end_season,
                       season |-> season, replayed |-> replayed,
                       season_games |-> Len(season_games),
                       old |-> ratings, old_elo_rating |-> elo_rating,
                       calls |-> done.calls \o regress_calls \o partial.calls,
                       persisted_games |-> PersistedGames,
                       raised |-> TRUE]
    /\ UNCHANGED <<reversion_factor, games, elo_rating, player_values, threads>>

NextReplay ==
    \/ TrainOnHistoricalData(1, 2)
    \/ \E season \in Seasons, replayed \in 0..MaxGames : TrainInterrupted(1, 2, season, replayed)

SpecReplay == InitReplay /\ [][NextReplay]_vars

\* the last season an interrupted pass replayed in full
LastFullSeason ==
    IF last.replayed = last.season_games THEN last.season ELSE last.season - 1

\* the rating map after a sequence of recorded calls, from map r
RECURSIVE ApplyCalls(_, _, _)
ApplyCalls(r, calls, n) ==
    IF n = 0 THEN r
    ELSE LET before == ApplyCalls(r, calls, n - 1)
             c == calls[n]
         IN  IF c.call = "season_regression" THEN SeasonRegressionMap(before, reversion_factor)
             ELSE UpdateRatingsMap(before, c.game.home_team_id, c.game.away_team_id,
                                   c.home_won, c.margin)

C29_GameDirection ==
    last.op \in {"train_on_historical_data", "train_on_historical_data interrupted"} =>
        \A i \in UpdateCalls(last.calls) :
            LET c == last.calls[i]
                g == c.game
            IN  /\ g.home_score > g.away_score =>
                      (c.ret[1] > c.old_home /\ c.ret[2] < c.old_away)
                /\ g.home_score <= g.away_score =>
                      (c.ret[1] < c.old_home /\ c.ret[2] > c.old_away)
                /\ c.home_won = (g.home_score > g.away_score)
                /\ g.home_score = g.away_score =>
                      /\ ~c.home_won
                      /\ c.margin = 0
                      /\ c.ret[1] = StoreSum(c.old_home,
                                       -RoundDiv(k_factor * ExpectedScore(
                                           c.old_home + home_advantage, c.old_away), ONE))

\* a completed pass whose second game is a tie between teams already moved
\* off the mean
C29_Witness ==
    /\ last.op = "train_on_historical_data"
    /\ ~last.raised
    /\ Len(last.calls) >= 2
    /\ last.calls[Len(last.calls)].call = "update_ratings"
    /\ last.calls[Len(last.calls)].game.home_score = last.calls[Len(last.calls)].game.away_score
    /\ last.calls[Len(last.calls)].old_home # mean_rating

---------------------------------------------------------------------------
(* get_hot_teams and get_cold_teams (specification SpecRanking) *)

\* the loop of get_hot_teams over the teams 1..n of the store: one entry per
\* team with at least 2 recent games (the entries' display fields team_name
\* and recent_record are left out)
TeamsForm(tbl, n) ==
    LET forms == [t \in 1..n |-> [team_id |-> t, form |-> RecentForm(tbl, t, NoDate)]]
        kept  == SelectSeq(forms, LAMBDA e : e.form.games_count >= 2)
    IN  [i \in 1..Len(kept) |->
            [team_id |-> kept[i].team_id, form_rating |-> kept[i].form.form_rating,
             momentum |-> kept[i].form.momentum]]

\* a stable sort: entry i goes behind the entries that come before it in the
\* order and behind the earlier entries with an equal key
\* (list.sort(key=form_rating, reverse=reverse): equal keys keep their order)
SortByForm(l, reverse) ==
    LET before(x, y) == IF reverse THEN x > y ELSE x < y
        pos(i) == 1 + Cardinality({j \in 1..Len(l) : before(l[j].form_rating, l[i].form_rating)})
                    + Cardinality({j \in 1..(i - 1) : l[j].form_rating = l[i].form_rating})
    IN  [p \in 1..Len(l) |-> l[CHOOSE i \in 1..Len(l) : pos(i) = p]]

\* get_hot_teams(top_n): the returned list
HotTeams(tbl, n_teams, top_n) ==
    LET teams_form == SortByForm(TeamsForm(tbl, n_teams), TRUE)
    IN  SubSeq(teams_form, 1, Min(top_n, Len(teams_form)))

\* get_cold_teams(bottom_n): the returned list, sorted out of
\* get_hot_teams(top_n=100)
ColdTeams(tbl, n_teams, bottom_n) ==
    LET teams_form == SortByForm(HotTeams(tbl, n_teams, 100), FALSE)
    IN  SubSeq(teams_form, 1, Min(bottom_n, Len(teams_form)))

\* a round of n games on one date: team k hosts team k + 1 (team n hosts team
\* 1) and wins 21-14 or 28-14, except that team `loser` (if any) loses its
\* home game 0-14 and the game hosted by team `open` (if any) has no away
\* score yet
RoundOfGames(n, loser, open) ==
    [k \in 1..n |->
        [season |-> 1, week |-> 1, game_date |-> 1,
         home_team_id |-> k, away_team_id |-> (k % n) + 1,
         home_score |-> IF k = loser THEN 0 ELSE 21 + 7 * ((k + loser) % 2),
         away_score |-> IF k = open THEN None ELSE 14]]

\* leagues of 3 and 4 teams with every choice of the two special games, and
\* leagues of 103 teams, more than get_cold_teams asks get_hot_teams for
Leagues ==
    {<<n, loser, open>> : n \in {3, 4}, loser \in 0..4, open \in 0..4}
    \cup {<<103, 1, 0>>, <<103, 50, 0>>, <<103, 1, 60>>}

InitRanking ==
    /\ ratings = EmptyRatings
    /\ reversion_factor = DefaultReversion
    /\ \E l \in Leagues :
          /\ games = RoundOfGames(l[1], l[2], l[3])
          /\ elo_rating = [t \in 1..l[1] |-> mean_rating]
    /\ player_values = EmptyRatings
    /\ nops = 0
    /\ last = NoCall
    /\ threads = NoThreads

GetHotTeams(top_n) ==
    /\ CanCall
    /\ nops' = nops + 1
    /\ last' = [op |-> "get_hot_teams", top_n |-> top_n,
                ret |-> HotTeams(games, Cardinality(DOMAIN elo_rating), top_n), raised |-> FALSE]
    /\ UNCHANGED <<ratings, reversion_factor, games, elo_rating, player_values, threads>>

GetColdTeams(bottom_n) ==
    /\ CanCall
    /\ nops' = nops + 1
    /\ last' = [op |-> "get_cold_teams", bottom_n |-> bottom_n,
                ret |-> ColdTeams(games, Cardinality(DOMAIN elo_rating), bottom_n), raised |-> FALSE]
    /\ UNCHANGED <<ratings, reversion_factor, games, elo_rating, player_values, threads>>

NextRanking ==
    \/ \E n \in {1, 2, 5} : GetHotTeams(n)
    \/ \E n \in {1, 2, 5} : GetColdTeams(n)

SpecRanking == InitRanking /\ [][NextRanking]_vars

\* the known teams with at least 2 completed games, and their form ratings
QualifyingTeams == {t \in DOMAIN elo_rating : Cardinality(EligibleIds(t, NoDate)) >= 2}

ComesBefore(x, y, descending) == IF descending THEN x > y ELSE x < y

\* the list is made of `count` distinct qualifying teams with their form
\* ratings, and no qualifying team left out would come before one in the list
RankedList(l, count, form, descending) ==
    /\ Len(l) = Min(count, Cardinality(QualifyingTeams))
    /\ \A i \in 1..Len(l) : /\ l[i].team_id \in QualifyingTeams
                            /\ l[i].form_rating = form[l[i].team_id]
    /\ \A i, j \in 1..Len(l) : i < j => /\ l[i].team_id # l[j].team_id
                                        /\ ~ComesBefore(l[j].form_rating, l[i].form_rating,
                                                        descending)
    /\ \A t \in QualifyingTeams \ {l[i].team_id : i \in 1..Len(l)} :
          \A i \in 1..Len(l) : ~ComesBefore(form[t], l[i].form_rating, descending)

\* C26: get_hot_teams(n) returns the n teams with the highest form_rating in
\* descending order and get_cold_teams(n) the n teams with the lowest in
\* ascending order, each over all known teams with at least 2 recent completed
\* games, for any number of known teams.
C26_HotAndColdTeams ==
    last.op \in {"get_hot_teams", "get_cold_teams"} =>
        LET form == [t \in DOMAIN elo_rating |-> RecentForm(games, t, NoDate).form_rating]
        IN  IF last.op = "get_hot_teams"
            THEN RankedList(last.ret, last.top_n, form, TRUE)
            ELSE RankedList(last.ret, last.bottom_n, form, FALSE)

---------------------------------------------------------------------------
(* Two calls on one engine from two threads, interleaved between the reads
   and writes of self.ratings (specification SpecConcurrent) *)

Threads == {1, 2}

ConcurrentCalls ==
    {[call |-> "update_ratings", home |-> 1, away |-> 2, home_won |-> TRUE, margin |-> 0],
     [call |-> "update_ratings", home |-> 1, away |-> 3, home_won |-> FALSE, margin |-> 7],
     [call |-> "update_ratings", home |-> 2, away |-> 1, home_won |-> TRUE, margin |-> 0],
     [call |-> "season_regression"]}

\* the maps the two calls find: every team at mean_rating, and teams 1 and 2
\* after one game between them
ConcurrentMaps ==
    {[t \in Teams |-> mean_rating], UpdateRatingsMap(EmptyRatings, 1, 2, TRUE, 7)}

\* a thread about to make its call
ThreadAt(call) ==
    [call |-> call, pc |-> "start", order |-> 0, overlaps |-> FALSE, entry |-> EmptyRatings,
     home_rating |-> 0, away_rating |-> 0, home_change |-> 0,
     size |-> 0, idx |-> 0, team_id |-> 0, current |-> 0]

InitConcurrent ==
    /\ ratings \in ConcurrentMaps
    /\ reversion_factor = DefaultReversion
    /\ games = <<>>
    /\ elo_rating = [t \in DBTeams |-> mean_rating]
    /\ player_values = EmptyRatings
    /\ nops = 0
    /\ last = NoCall
    /\ threads \in [Threads -> {ThreadAt(c) : c \in ConcurrentCalls}]


\* the thread enters its call: update_ratings is about to read the home
\* rating, season_regression has created the iterator over self.ratings
Enter(t) ==
    /\ threads[t].pc = "start"
    /\ threads' = [threads EXCEPT ![t] =
          [@ EXCEPT !.pc = IF threads[t].call.call = "update_ratings" THEN "read_home"
                           ELSE "next",
                    !.order = 1 + Cardinality({u \in Threads \ {t} : threads[u].pc # "start"}),
                    !.overlaps = \E u \in Threads \ {t} :
                                     threads[u].pc \notin {"start", "done", "raised"},
                    !.entry = ratings,
                    !.size = Cardinality(DOMAIN ratings)]]
    /\ UNCHANGED <<ratings, reversion_factor, games, elo_rating, player_values, nops, last>>

\* home_rating = self.ratings.get(home_team_id, self.mean_rating)
ReadHome(t) ==
    /\ threads[t].pc = "read_home"
    /\ threads' = [threads EXCEPT ![t] =
          [@ EXCEPT !.pc = "read_away",
                    !.home_rating = Get(ratings, threads[t].call.home, mean_rating)]]
    /\ UNCHANGED <<ratings, reversion_factor, games, elo_rating, player_values, nops, last>>

\* away_rating = self.ratings.get(away_team_id, self.mean_rating), then the
\* change computed from the two values read
ReadAway(t) ==
    /\ threads[t].pc = "read_away"
    /\ LET c == threads[t].call
           away_rating == Get(ratings, c.away, mean_rating)
           read == Put(Put(EmptyRatings, c.home, threads[t].home_rating), c.away, away_rating)
       IN  threads' = [threads EXCEPT ![t] =
              [@ EXCEPT !.pc = "write_home",
                        !.away_rating = away_rating,
                        !.home_change = HomeChange(read, c.home, c.away, c.home_won, c.margin)]]
    /\ UNCHANGED <<ratings, reversion_factor, games, elo_rating, player_values, nops, last>>

\* self.ratings[home_team_id] = home_rating + home_change
WriteHome(t) ==
    /\ threads[t].pc = "write_home"
    /\ ratings' = Put(ratings, threads[t].call.home,
                      StoreSum(threads[t].home_rating, threads[t].home_change))
    /\ threads' = [threads EXCEPT ![t].pc = "write_away"]
    /\ UNCHANGED <<reversion_factor, games, elo_rating, player_values, nops, last>>

\* the away store adding the home team's change (sign slip)
WriteAway_AddsChange(t) ==
    /\ threads[t].pc = "write_away"
    /\ ratings' = Put(ratings, threads[t].call.away,
                      StoreSum(threads[t].away_rating, threads[t].home_change))
    /\ threads' = [threads EXCEPT ![t].pc = "done"]
    /\ UNCHANGED <<reversion_factor, games, elo_rating, player_values, nops, last>>

\* self.ratings[away_team_id] = away_rating - home_change
WriteAway(t) ==
    /\ threads[t].pc = "write_away"
    /\ ratings' = Put(ratings, threads[t].call.away,
                      StoreSum(threads[t].away_rating, -threads[t].home_change))
    /\ threads' = [threads EXCEPT ![t].pc = "done"]
    /\ UNCHANGED <<reversion_factor, games, elo_rating, player_values, nops, last>>

\* the idx-th key of the map (keys in ascending id order)
KeyAt(r, idx) == CHOOSE k \in DOMAIN r : Cardinality({x \in DOMAIN r : x <= k}) = idx

\* for team_id in self.ratings: the iterator's next key; it raises
\* RuntimeError when the dict has changed size since the iterator was made
RegressNext(t) ==
    /\ threads[t].pc = "next"
    /\ threads' = [threads EXCEPT ![t] =
          IF Cardinality(DOMAIN ratings) # @.size THEN [@ EXCEPT !.pc = "raised"]
          ELSE IF @.idx = @.size THEN [@ EXCEPT !.pc = "done"]
          ELSE [@ EXCEPT !.pc = "read", !.idx = @ + 1,
                         !.team_id = KeyAt(ratings, threads[t].idx + 1)]]
    /\ UNCHANGED <<ratings, reversion_factor, games, elo_rating, player_values, nops, last>>

\* current = self.ratings[team_id]
RegressRead(t) ==
    /\ threads[t].pc = "read"
    /\ threads' = [threads EXCEPT ![t] =
          [@ EXCEPT !.pc = "write", !.current = ratings[threads[t].team_id]]]
    /\ UNCHANGED <<ratings, reversion_factor, games, elo_rating, player_values, nops, last>>

\* self.ratings[team_id] = current * (1 - reversion_factor) + mean * reversion_factor
RegressWrite(t) ==
    /\ threads[t].pc = "write"
    /\ ratings' = Put(ratings, threads[t].team_id,
                      RegressOne(threads[t].current, reversion_factor))
    /\ threads' = [threads EXCEPT ![t].pc = "next"]
    /\ UNCHANGED <<reversion_factor, games, elo_rating, player_values, nops, last>>

NextConcurrent ==
    \E t \in Threads :
        \/ Enter(t)
        \/ ReadHome(t)
        \/ ReadAway(t)
        \/ WriteHome(t)
        \/ WriteAway(t)
        \/ RegressNext(t)
        \/ RegressRead(t)
        \/ RegressWrite(t)

SpecConcurrent == InitConcurrent /\ [][NextConcurrent]_vars

\* the map after one whole call
CallResult(c, r) ==
    IF c.call = "season_regression" THEN SeasonRegressionMap(r, reversion_factor)
    ELSE UpdateRatingsMap(r, c.home, c.away, c.home_won, c.margin)

BothReturned == \A t \in Threads : threads[t].pc = "done"

\* the map the first call was entered with
FirstEntry == threads[CHOOSE t \in Threads : threads[t].order = 1].entry

\* the maps the two calls produce when one runs after the other
SerialOutcomes ==
    {CallResult(threads[2].call, CallResult(threads[1].call, FirstEntry)),
     CallResult(threads[1].call, CallResult(threads[2].call, FirstEntry))}

\* the teams a call reads or writes in the map it was entered with
TeamsOf(th) ==
    IF th.call.call = "season_regression" THEN DOMAIN th.entry
    ELSE {th.call.home, th.call.away}

\* C22: the calls read and write the shared map in separate steps, so two
\* calls that return without overlapping leave the map of a serial order, and
\* a map that no serial order produces can only come from an interleaving.
C22_NonSerialOnlyWhenInterleaved ==
    (threads # NoThreads /\ BothReturned) =>
        \/ ratings \in SerialOutcomes
        \/ \E t \in Threads : threads[t].overlaps

\* two interleaved calls touching a common team have both returned and left
\* a map that neither serial order produces, with a total of rating -
\* mean_rating more than one rating point away from the total of the map they
\* started from (a lost update)
C22_Witness ==
    /\ threads # NoThreads
    /\ BothReturned
    /\ TeamsOf(threads[1]) \cap TeamsOf(threads[2]) # {}
    /\ ratings \notin SerialOutcomes
    /\ Abs(TotalDeviation - SumOfDeviations(FirstEntry, DOMAIN FirstEntry)) > RS

====
